---- MODULE Spec2Model ----
(***************************************************************************)
(* Model of the Push task execution daemon (lib/daemon.js): the scheduler  *)
(* tick, the task runner, the child supervision, the status file and the   *)
(* shutdown path, together with the backend it talks to.                   *)
(*                                                                         *)
(* One step of the model is one synchronous segment of a handler of the    *)
(* daemon's event loop (from its start to its next await or its return),   *)
(* or one step of the environment: the backend handling a request, a       *)
(* child writing a line or closing, the clock advancing, a reader reading  *)
(* the status file.                                                        *)
(***************************************************************************)
EXTENDS Integers, Sequences, FiniteSets, TLC

\* ---------------------------------------------------------------- constants

MAX_CONCURRENT_TASKS == 5
TASK_TIMEOUT_MS == 3600000
KILL_WAIT_MS == 5000
STDOUT_BUFFER_LINES == 20
STUCK_IDLE_THRESHOLD == 600000
STUCK_WARNING_THRESHOLD == 300000
RETRY_MAX_ATTEMPTS == 3
RETRY_INITIAL_DELAY == 2000
RETRY_MAX_DELAY == 30000
RETRY_BACKOFF_FACTOR == 2

\* ------------------------------------------------------------------- bounds

\* Display numbers 1..MaxTasks exist in the model.
MaxTasks == 6
\* Tasks queued at the start, and scheduler ticks the daemon may start, in
\* the specification of the task runner.
RunnerTasks == 2
RunnerTicks == 2
\* Requests the backend handles in one behaviour.
MaxDeliveries == 2
\* Reads of the status file by an outside reader.
MaxReads == 1
\* Tasks, ticks, clock advances and deliveries in the specification of the
\* timeout sweep.
TimeoutTasks == 2
TimeoutTicks == 2
TimeoutAdvances == 3
TimeoutDeliveries == 1
\* Ticks in the specification of a task dispatched again after its timeout.
RedispatchTicks == 3
\* Lines a child writes in the specification of stdout capture: more than
\* the buffer holds.
StdoutLines == 22
\* Child exits in a behaviour.
MaxCloses == 4
\* Ticks, deliveries and child exits in the specification of more queued
\* tasks than slots.
CapTicks == 3
CapDeliveries == 1
CapCloses == 2
\* Tasks already running, ticks, deliveries and child exits in the
\* specification of dispatch at the cap.
DispatchRunning == 4
DispatchTicks == 2
DispatchDeliveries == 1
DispatchCloses == 1
\* Tasks, ticks and deliveries in the specification of the project
\* registry.
RegistryTasks == 2
RegistryTicks == 2
RegistryDeliveries == 1
\* Daemon processes one machine sees in a run, and CLI commands run on it.
MaxDaemons == 3
MaxCalls == 2
\* Ticks, clock advances, deliveries and stdout lines of the specification
\* of idle detection.
IdleTicks == 2
IdleAdvances == 3
IdleDeliveries == 1
IdleLines == 2
\* Calls of the batch-size functions in a run, and the largest number a
\* config file or a caller may hold.
ConfigCalls == 3
ConfigMax == 22
\* Tasks, commits and git operations of the repository of one project.
WorktreeTasks == 2
WorktreeCommits == 3
WorktreeOps == 6
\* Outcomes of successive fetches drawn for one backend request.
ApiOutcomes == 3
\* Tasks, ticks and deliveries in the specification of failing polls.
FailTasks == 2
FailTicks == 3
FailDeliveries == 2
\* Closes of children whose PR creation the environment decides.
PrCloses == 1
\* Calls of the registry's methods by a CLI, and readings of projects.json
\* by the daemon.
ProjectsCalls == 4
ProjectsReads == 2
\* Remotes whose registration varies before a poll.
PollRemotes == 3
\* Ticks per machine and deliveries in the specification of two machines
\* racing for one task.
RaceTicks == 1
RaceDeliveries == 3

Machines == {"A", "B"}
Tasks == 1..MaxTasks

\* The stdout lines a child may write: plain text, a blank line, a line
\* holding a stuck phrase, a JSON object with a session_id.
Lines == {"text", "blank", "stuck", "sid"}

VARIABLES
    daemon,     \* [Machines -> the daemon process's memory]
    disk,       \* [Machines -> the machine's files and git state]
    children,   \* [Machines -> the agent processes not yet closed]
    net,        \* requests on the wire
    unsent,     \* requests issued by a process that exited before sending
    received,   \* the backend's log of handled requests, in order
    bstatus,    \* [Tasks -> the backend's execution_status]
    bowner,     \* [Tasks -> the machine holding the claim]
    now,        \* the clock, in ms
    readerSaw,  \* [Machines -> what the last read of daemon_status.json gave]
    budget,     \* what the environment may still do
    api,        \* one call of apiRequest(), from its first fetch to its end
    host,       \* one machine's daemon processes, CLI processes and the
                \* files daemon.pid and daemon.version they share
    repo,       \* the git repository of one project: its branches, their
                \* commits and its worktrees
    config,     \* the config file's PUSH_MAX_BATCH_SIZE entry and the calls
                \* of the functions that read and write it
    projects    \* one CLI's ProjectRegistry, the file projects.json and
                \* the daemon's last reading of the file

\* The variables outside the daemon, its machine and its backend.
side == <<api, host, repo, config, projects>>

\* The daemons, their machines, the network and the backend.
main == <<daemon, disk, children, net, unsent, received, bstatus, bowner,
          now, readerSaw, budget>>

vars == <<main, side>>

\* ------------------------------------------------------------------ helpers

Min(a, b) == IF a < b THEN a ELSE b

SeqToSet(s) == {s[i] : i \in 1..Len(s)}

\* s.slice(0, n)
Slice(s, n) == SubSeq(s, 1, Min(n, Len(s)))

\* Math.floor(ms / 1000)
FloorSeconds(ms) == ms \div 1000

\* runningTasks is a Map keyed by display number, in insertion order.
Has(running, dn) == \E i \in 1..Len(running) : running[i].dn = dn

Get(running, dn) == running[CHOOSE i \in 1..Len(running) : running[i].dn = dn]

Delete(running, dn) == SelectSeq(running, LAMBDA r : r.dn # dn)

\* ------------------------------------------------- a handler's working state

(***************************************************************************)
(* A handler works on w: the daemon's memory (d), the machine's disk, its  *)
(* children, the requests it has issued (out), the clock, the faults the   *)
(* environment may still inject (faults), the lines an agent writes to     *)
(* its stdout (script) and the result of the last call that has one (ok).  *)
(***************************************************************************)
World(m) ==
    [m |-> m, d |-> daemon[m], disk |-> disk[m], kids |-> children[m],
     out |-> {}, now |-> now, faults |-> budget.faults,
     script |-> budget.script, ok |-> TRUE, pr |-> "noCommits"]

\* ------------------------------------------------------------------- config

\* getMachineId(): the content of the machine_id file, "none" when absent.
getMachineId(dk) == dk.machineId

\* getWorktreeSuffix(): the id's 8-hex suffix, 'local' without an id.
getWorktreeSuffix(dk) ==
    IF getMachineId(dk) # "none" THEN getMachineId(dk) ELSE "local"

\* getWorktreePath(): push-{displayNumber}-{suffix} beside the project, or
\* beside the daemon's cwd when no project path is given.
getWorktreePath(dk, dn, projectPath) ==
    <<dn, getWorktreeSuffix(dk), IF projectPath = "project" THEN "project" ELSE "cwd">>

\* A variant that finds a path for a repository that is not registered.
getProjectPath_Any(dk, dn) ==
    IF dk.registry[dn] = "unregistered" THEN "ok" ELSE dk.registry[dn]

\* A variant that does not look whether the registered path exists.
getProjectPath_NoExists(dk, dn) ==
    IF dk.registry[dn] = "missing" THEN "ok" ELSE dk.registry[dn]

\* getProjectPath() and existsSync(projectPath) for the task's git remote:
\* "ok", "unregistered" (no entry), "missing" (entry, no directory) or
\* "noremote" (the task names no git remote).
getProjectPath(dk, dn) == dk.registry[dn]

\* ---------------------------------------------------------------------- API

\* The event updateTaskStatus attaches when the caller passes none.
AutoEvent(status) ==
    CASE status = "running" -> "started"
      [] status = "session_finished" -> "session_finished"
      [] status = "failed" -> "failed"
      [] OTHER -> "none"

\* updateTaskStatus(): one PATCH update-task-execution, not awaited by any
\* caller.  run names the dispatch the report belongs to.
updateTaskStatus(w, dn, status, detail, event, run, sid, secs) ==
    [w EXCEPT
        !.out = @ \cup {[from |-> w.m, id |-> w.d.reqSeq + 1, dn |-> dn,
                         kind |-> status, detail |-> detail,
                         event |-> IF event = "" THEN AutoEvent(status) ELSE event,
                         run |-> run, sid |-> sid, secs |-> secs]},
        !.d.reqSeq = @ + 1]

\* claimTask(): without a machine id no request is made; otherwise the
\* atomic claim is put on the wire.  Its answer reaches only claimTask's
\* own promise.
claimTask(w, dn, run) ==
    IF getMachineId(w.disk) = "none" THEN w
    ELSE [w EXCEPT
        !.out = @ \cup {[from |-> w.m, id |-> w.d.reqSeq + 1, dn |-> dn,
                         kind |-> "claim", detail |-> "atomic",
                         event |-> "none", run |-> run, sid |-> "",
                         secs |-> 0]},
        !.d.reqSeq = @ + 1]

\* What executeTask's `if (!claimTask(displayNumber)) return null` sees:
\* claimTask is async, so the value tested is its promise, which is truthy
\* whatever the backend answers later.
claimTaskResult(w, dn) == TRUE

\* -------------------------------------------------------------- status file

\* updateStatusFile(): writes daemon_status.json.tmp, then renames it over
\* daemon_status.json; the snapshot carries the time it was written at.
updateStatusFile(w) ==
    [w EXCEPT !.disk.statusFile = "snapshot", !.disk.updatedAt = w.now]

\* updateTaskDetail(): merges the update into the task's details.
updateTaskDetail(w, dn, phase, detail) ==
    updateStatusFile([w EXCEPT !.d.taskDetails[dn] = phase,
                               !.d.taskReason[dn] = detail])

\* A variant of the removal that leaves the entry in place.
taskDetailsDelete_Keep(w, dn) == w

\* taskDetails.delete(displayNumber).
taskDetailsDelete(w, dn) ==
    [w EXCEPT !.d.taskDetails[dn] = "absent", !.d.taskReason[dn] = ""]

\* ---------------------------------------------------------------- worktrees

\* createWorktree(): reuses an existing directory; otherwise `git worktree
\* add -b`, then `git worktree add` on the existing branch; gitOk is
\* whether one of the two succeeds.  The result is in w.ok.
createWorktree(w, dn, projectPath, gitOk) ==
    LET path == getWorktreePath(w.disk, dn, projectPath)
        branch == <<dn, getWorktreeSuffix(w.disk)>>
    IN  IF path \in w.disk.worktrees THEN [w EXCEPT !.ok = TRUE]
        ELSE IF gitOk
        THEN [w EXCEPT !.disk.worktrees = @ \cup {path},
                       !.disk.branches = @ \cup {branch},
                       !.ok = TRUE]
        ELSE [w EXCEPT !.ok = FALSE]

\* cleanupWorktree(): `git worktree remove --force` of the directory when
\* it exists; the branch is left alone.
cleanupWorktree(w, dn, projectPath) ==
    LET path == getWorktreePath(w.disk, dn, projectPath)
    IN  IF path \notin w.disk.worktrees THEN w
        ELSE [w EXCEPT !.disk.worktrees = @ \ {path}]

\* ----------------------------------------------------------- child processes

\* process.kill(signal) on a child that has not closed yet.
Kill(kids, id, sig) ==
    {IF c.id = id /\ c.sig # "KILL" THEN [c EXCEPT !.sig = sig] ELSE c : c \in kids}

\* The phrases that show the agent waiting for input, in the order they
\* are looked for.
STUCK_PATTERNS ==
    <<"waiting for permission", "approve this action", "permission required",
      "plan ready for approval", "waiting for user", "enter plan mode",
      "press enter to continue", "y/n", "[Y/n]", "confirm:">>

\* line.toLowerCase().includes(pattern.toLowerCase()) for the lines an
\* agent writes here: "stuck" stands for a line asking for permission.
LineIncludes(line, pattern) ==
    CASE line = "stuck" -> pattern = "waiting for permission"
      [] line = "Proceed? [Y/n]" -> pattern \in {"y/n", "[Y/n]"}
      [] line = "Press ENTER to continue" -> pattern = "press enter to continue"
      [] OTHER -> FALSE

\* checkStuckPatterns(): the reason, naming the first phrase of the list
\* that the line holds; "" when it holds none.
checkStuckPatterns(line) ==
    LET hits == {i \in 1..Len(STUCK_PATTERNS) : LineIncludes(line, STUCK_PATTERNS[i])}
    IN  IF hits = {} THEN ""
        ELSE STUCK_PATTERNS[CHOOSE i \in hits : \A j \in hits : i <= j]

\* JSON.parse(line).session_id of a line that starts with '{' and contains
\* 'session_id'; "" when there is none.
LineSessionId(line) == IF line = "sid" THEN "S1" ELSE ""

\* extractSessionIdFromStdout(): the first line of buffer + remaining that
\* parses to an object with a session_id; failing that, the whole output
\* parsed as one JSON document (one line, in this model).
extractSessionIdFromStdout(buffer, remaining) ==
    LET all == buffer \o remaining
        hits == {i \in 1..Len(all) : LineSessionId(all[i]) # ""}
    IN  IF hits # {}
        THEN LineSessionId(all[CHOOSE i \in hits : \A j \in hits : i <= j])
        ELSE IF Len(all) = 1 THEN LineSessionId(all[1]) ELSE ""

\* The stdout 'data' handler's buffer update: push, then shift when more
\* than 20 lines are held.
PushLine(buffer, line) ==
    LET b == Append(buffer, line)
    IN  IF Len(b) > STDOUT_BUFFER_LINES THEN Tail(b) ELSE b

\* ------------------------------------------------------------- task runner

\* The per-task maps handleTaskCompletion and checkTimeouts clear.
ForgetTask(w, dn) ==
    [w EXCEPT !.d.taskDetails[dn] = "absent",
              !.d.taskReason[dn] = "",
              !.d.taskLastOutput[dn] = -1,
              !.d.taskStdoutBuffer[dn] = <<>>,
              !.d.taskProjectPaths[dn] = "absent"]

\* A variant of the slot check that always finds a slot.
SlotFree_NoCap(running) == TRUE

\* executeTask()'s slot check: the running set is below the cap.
SlotFree(running) == Len(running) < MAX_CONCURRENT_TASKS

\* executeTask(): gitOk and spawnRes are what git and spawn() do this time.
executeTask(w, dn, gitOk, spawnRes) ==
    LET reg == getProjectPath(w.disk, dn)
        projectPath == IF reg = "noremote" THEN "cwd" ELSE "project"
        run == w.d.runSeq + 1
    IN
    IF Has(w.d.runningTasks, dn) THEN w
    ELSE IF ~SlotFree(w.d.runningTasks) THEN w
    ELSE IF reg = "unregistered" THEN w
    ELSE IF reg = "missing"
    THEN updateTaskStatus(w, dn, "failed", "path", "", 0, "", 0)
    ELSE
    LET w1 == claimTask([w EXCEPT !.d.runSeq = run], dn, run) IN
    IF ~claimTaskResult(w1, dn) THEN w1
    ELSE
    LET w2 == updateTaskDetail(w1, dn, "starting", "Starting Claude...")
        w3 == createWorktree(w2, dn, projectPath, gitOk)
    IN
    IF ~w3.ok
    THEN [taskDetailsDelete(
              updateTaskStatus(w3, dn, "failed", "worktree", "", run, "", 0), dn)
            EXCEPT !.ok = TRUE]
    ELSE
    LET w4 == [w3 EXCEPT !.d.taskProjectPaths[dn] = projectPath]
        w5 == updateTaskStatus(w4, dn, "running", "", "started", run, "", 0)
    IN
    IF spawnRes = "throw"
    THEN taskDetailsDelete(
             updateTaskStatus(w5, dn, "failed", "spawn", "", run, "", 0), dn)
    ELSE
    LET child == [id |-> run, dn |-> dn, sig |-> "none",
                  st |-> IF spawnRes = "ok" THEN "running" ELSE "spawnfail",
                  todo |-> IF spawnRes = "ok" THEN w.script ELSE <<>>]
        w6 == [w5 EXCEPT
                 !.kids = @ \cup {child},
                 !.d.runningTasks =
                     Append(@, [dn |-> dn, child |-> run, startTime |-> w.now]),
                 !.d.taskLastOutput[dn] = w.now,
                 !.d.taskStdoutBuffer[dn] = <<>>,
                 !.d.nextTickQ =
                     IF spawnRes = "ok" THEN @ ELSE Append(@, run)]
    IN  updateTaskDetail(w6, dn, "executing", "Running Claude...")

\* What git and gh do in createPRForTask(): the branch has no new commit,
\* the push fails, gh is not installed, a PR of the branch exists already,
\* or the PR is created.
PrOutcomes == {"noCommits", "pushFails", "ghAbsent", "alreadyExists", "created"}

\* A variant in which a failing step's error leaves its text as the URL.
createPRForTask_Throws(outcome) ==
    IF outcome = "noCommits" THEN "" ELSE outcome

\* createPRForTask(): null without new commits; the URL gh prints when the
\* push and `gh pr create` succeed; null when either throws, whatever the
\* error is.
createPRForTask(outcome) ==
    CASE outcome = "noCommits" -> ""
      [] outcome = "created" -> "pr-url"
      [] OTHER -> ""

\* handleTaskCompletion(): the child-close handler.  code is "0", "1" (any
\* non-zero exit code) or "signal" (null: killed by a signal).  The
\* execution summary of a finished session holds the PR's URL, if any.
handleTaskCompletion(w, dn, code) ==
    IF ~Has(w.d.runningTasks, dn) THEN w
    ELSE
    LET taskInfo == Get(w.d.runningTasks, dn)
        w1 == [w EXCEPT !.d.runningTasks = Delete(@, dn)]
        projectPath == w.d.taskProjectPaths[dn]
        sessionId == extractSessionIdFromStdout(w.d.taskStdoutBuffer[dn], <<>>)
        prUrl == createPRForTask(w.pr)
        w2 == IF code = "0"
              THEN [updateTaskStatus(w1, dn, "session_finished", prUrl, "",
                                     taskInfo.child, sessionId, 0)
                      EXCEPT !.d.completedToday =
                          Append(@, [dn |-> dn, status |-> "session_finished",
                                     sid |-> sessionId, prUrl |-> prUrl])]
              ELSE [updateTaskStatus(w1, dn, "failed", "exit", "",
                                     taskInfo.child, "", 0)
                      EXCEPT !.d.completedToday =
                          Append(@, [dn |-> dn, status |-> "failed", sid |-> ""])]
    IN  updateStatusFile(cleanupWorktree(ForgetTask(w2, dn), dn, projectPath))

\* ---------------------------------------------------------- scheduler tick

NoVictim == [dn |-> 0, child |-> 0, startTime |-> 0]

\* A variant that also collects a task at exactly the limit.
timedOutOf_AtLimit(running, t) ==
    LET late == SelectSeq(running, LAMBDA r : t - r.startTime >= TASK_TIMEOUT_MS)
    IN  [i \in 1..Len(late) |-> late[i].dn]

\* A variant that collects no task.
timedOutOf_Never(running, t) == <<>>

\* A variant that collects a task once the idle warning threshold has
\* passed since its start.
timedOutOf_Idle(running, t) ==
    LET late == SelectSeq(running,
                          LAMBDA r : t - r.startTime > STUCK_WARNING_THRESHOLD)
    IN  [i \in 1..Len(late) |-> late[i].dn]

\* The display numbers checkTimeouts collects: the running tasks whose
\* elapsed time exceeds the limit, in the Map's order.
timedOutOf(running, t) ==
    LET late == SelectSeq(running, LAMBDA r : t - r.startTime > TASK_TIMEOUT_MS)
    IN  [i \in 1..Len(late) |-> late[i].dn]

\* A variant of the idle test that measures from the task's start.
checkTaskIdle_SinceStart(d, dn, t) ==
    t - Get(d.runningTasks, dn).startTime > STUCK_IDLE_THRESHOLD

\* checkTaskIdle(): false without a last-output time, else whether more
\* than the idle threshold has passed since it.
checkTaskIdle(d, dn, t) ==
    LET lastOutput == d.taskLastOutput[dn]
    IN  IF lastOutput = -1 \/ lastOutput = 0 THEN FALSE
        ELSE t - lastOutput > STUCK_IDLE_THRESHOLD

\* The tasks checkTimeouts()'s first loop reports as idle.
idleOf(d, t) ==
    {dn \in {d.runningTasks[i].dn : i \in 1..Len(d.runningTasks)} :
        checkTaskIdle(d, dn, t)}

\* poll() has returned: after the initial poll mainLoop installs the
\* interval.
EndTick(w) ==
    [w EXCEPT !.d.boot = IF @ = "initial" THEN "interval" ELSE @]

\* pollAndExecute() up to `await fetchQueuedTasks()`: nothing is polled when
\* every slot is in use.
pollAndExecute(w, t) ==
    IF Len(w.d.runningTasks) >= MAX_CONCURRENT_TASKS THEN EndTick(w)
    ELSE [w EXCEPT !.d.ticks = @ \cup
            {[t EXCEPT !.pc = "pollWait",
                       !.slots = MAX_CONCURRENT_TASKS - Len(w.d.runningTasks)]}]

\* checkTimeouts()'s loop over timedOut from position j up to its next
\* await: a task no longer in the Map is passed over; the next one found
\* is sent SIGTERM, and the sweep waits 5 s.  After the loop the status
\* file is rewritten and the tick goes on to pollAndExecute().
RECURSIVE SweepFrom(_, _, _)
SweepFrom(w, t, j) ==
    IF j > Len(t.timedOut) THEN pollAndExecute(updateStatusFile(w), t)
    ELSE IF ~Has(w.d.runningTasks, t.timedOut[j]) THEN SweepFrom(w, t, j + 1)
    ELSE
    LET taskInfo == Get(w.d.runningTasks, t.timedOut[j])
    IN  [w EXCEPT !.kids = Kill(@, taskInfo.child, "TERM"),
                  !.d.ticks = @ \cup
                      {[t EXCEPT !.pc = "killWait", !.idx = j,
                                 !.victim = taskInfo, !.since = w.now]}]

\* checkTimeouts() from its start to its first await.
checkTimeouts(w, t) ==
    IF t.timedOut = <<>> THEN pollAndExecute(w, t) ELSE SweepFrom(w, t, 1)

\* checkTimeouts() after the 5 s wait: SIGKILL, removal, the failed report,
\* the completed-today record, the cleanup; then the rest of the loop.
checkTimeoutsResume(w, t) ==
    LET dn == t.timedOut[t.idx]
        taskInfo == t.victim
        duration == FloorSeconds(t.now - taskInfo.startTime)
        projectPath == w.d.taskProjectPaths[dn]
        w1 == [w EXCEPT !.kids = Kill(@, taskInfo.child, "KILL"),
                        !.d.runningTasks = Delete(@, dn),
                        !.d.ticks = @ \ {t}]
        w2 == updateTaskStatus(w1, dn, "failed", "timeout", "",
                               taskInfo.child, "", duration)
        w3 == [w2 EXCEPT !.d.completedToday =
                  Append(@, [dn |-> dn, status |-> "timeout", sid |-> ""])]
        w4 == cleanupWorktree(ForgetTask(w3, dn), dn, projectPath)
    IN  SweepFrom(w4, t, t.idx + 1)

\* The outcomes of git and spawn() the environment may still choose.
GitResults(w) == IF w.faults > 0 THEN {TRUE, FALSE} ELSE {TRUE}
SpawnResults(w) == IF w.faults > 0 THEN {"ok", "enoent", "throw"} ELSE {"ok"}

UseFault(w, gitOk, spawnRes) ==
    IF gitOk /\ spawnRes = "ok" THEN w ELSE [w EXCEPT !.faults = @ - 1]

\* pollAndExecute()'s loop over tasks.slice(0, availableSlots): every way
\* the loop can end, given what git and spawn() may do.
RECURSIVE DispatchAll(_, _)
DispatchAll(w, tasks) ==
    IF tasks = <<>> THEN {w}
    ELSE IF Has(w.d.runningTasks, Head(tasks)) THEN DispatchAll(w, Tail(tasks))
    ELSE UNION {DispatchAll(executeTask(UseFault(w, g, s), Head(tasks), g, s),
                            Tail(tasks))
                    : g \in GitResults(w), s \in SpawnResults(w)}

\* pollAndExecute() after fetchQueuedTasks() has returned tasks.
pollAndExecuteResume(w, t, tasks) ==
    LET w1 == [w EXCEPT !.d.ticks = @ \ {t}]
    IN  IF tasks = <<>> THEN {EndTick(w1)}
        ELSE {EndTick(updateStatusFile(x)) : x \in DispatchAll(w1, Slice(tasks, t.slots))}

\* cleanup(): every running child is sent SIGTERM, a failed report with a
\* daemon_shutdown event is issued, the worktree is removed; then the PID
\* file is unlinked.  process.exit(0) follows in the same synchronous run,
\* before the event loop can send anything: the reports issued here stay
\* in out and never reach the wire.
RECURSIVE cleanupTasks(_, _)
cleanupTasks(w, running) ==
    IF running = <<>> THEN w
    ELSE
    LET taskInfo == Head(running)
        w1 == [w EXCEPT !.kids = Kill(@, taskInfo.child, "TERM")]
        w2 == updateTaskStatus(w1, taskInfo.dn, "failed", "shutdown",
                               "daemon_shutdown", taskInfo.child, "", 0)
        w3 == cleanupWorktree(w2, taskInfo.dn, w.d.taskProjectPaths[taskInfo.dn])
    IN  cleanupTasks(w3, Tail(running))

\* A variant of cleanup() that leaves the children alone.
cleanup_NoKill(w) ==
    [cleanupTasks(w, w.d.runningTasks) EXCEPT !.disk.pidFile = FALSE,
                                              !.kids = w.kids]

\* cleanup() up to the unlink of the PID file.
cleanup(w) ==
    [cleanupTasks(w, w.d.runningTasks) EXCEPT !.disk.pidFile = FALSE]

\* ------------------------------------------------------------------ backend

\* The queued tasks, in display-number order, as a poll returns them.
RECURSIVE QueuedFrom(_)
QueuedFrom(k) ==
    IF k > MaxTasks THEN <<>>
    ELSE IF bstatus[k] = "queued" THEN <<k>> \o QueuedFrom(k + 1)
    ELSE QueuedFrom(k + 1)

\* The answer to an atomic claim: claimed:true iff the task is queued.
ClaimAnswer(r) == bstatus[r.dn] = "queued"

\* -------------------------------------------------------------- apiRequest

\* The patterns isRetryableError() looks for in an error's text.
RETRYABLE_ERRORS ==
    {"timeout", "connection refused", "connection reset",
     "network is unreachable", "temporary failure", "rate limit",
     "429", "502", "503", "504"}

\* What one fetch() may do: resolve with a response of some HTTP status, or
\* reject with an error whose text holds one of the patterns or none.
FetchOutcomes ==
    [kind : {"response"}, status : {200, 404, 429, 500, 503}, text : {""}]
    \cup [kind : {"error"}, status : {0},
          text : RETRYABLE_ERRORS \cup {"fetch failed", "aborted"}]

NoOutcome == [kind |-> "none", status |-> 0, text |-> ""]

\* A variant that takes every error for a retryable one.
isRetryableError_Any(error) == TRUE

\* isRetryableError(): the error's text holds one of the patterns.
isRetryableError(error) == error.text \in RETRYABLE_ERRORS

\* A variant of the backoff step that does not grow the delay.
NextDelay_Fixed(delay) == delay

\* apiRequest()'s backoff step.
NextDelay(delay) == Min(delay * RETRY_BACKOFF_FACTOR, RETRY_MAX_DELAY)

\* A request with no headers beside the ones apiRequest() always sets.
NoHeaders == [names |-> {}, id |-> "", name |-> "", remotes |-> <<>>]

\* No call of apiRequest() is being followed.
ApiIdle ==
    [pc |-> "idle", retry |-> TRUE, attempt |-> 0, delay |-> 0,
     script |-> <<>>, waits |-> <<>>, result |-> NoOutcome,
     headers |-> NoHeaders]

\* apiRequest() at its first fetch; script is what the fetches will do.
ApiCall(retry, script) ==
    [pc |-> "fetch", retry |-> retry, attempt |-> 1,
     delay |-> RETRY_INITIAL_DELAY, script |-> script, waits |-> <<>>,
     result |-> NoOutcome, headers |-> NoHeaders]

\* apiRequest() when its fetch settles: a response is returned whatever its
\* status; an error is retried after a wait when it is retryable and the
\* attempt is not the last, and is thrown otherwise.
apiRequestSettle(a) ==
    LET o == Head(a.script)
        maxAttempts == IF a.retry THEN RETRY_MAX_ATTEMPTS ELSE 1
        isLast == a.attempt = maxAttempts
        a1 == [a EXCEPT !.script = Tail(@), !.result = o]
    IN  IF o.kind = "response" THEN [a1 EXCEPT !.pc = "returned"]
        ELSE IF ~isLast /\ a.retry /\ isRetryableError(o)
        THEN [a1 EXCEPT !.pc = "wait", !.waits = Append(@, a.delay)]
        ELSE [a1 EXCEPT !.pc = "thrown"]

\* apiRequest() when the wait before a retry is over.
apiRequestRetry(a) ==
    [a EXCEPT !.pc = "fetch", !.delay = NextDelay(@), !.attempt = @ + 1]

\* ------------------------------------------------------------ daemon-health

\* Package versions, process ids of daemons, and CLI processes.
Versions == {"3.4.2", "3.5.0"}
Pids == 1..MaxDaemons
Clis == {"c1", "c2"}

\* getDaemonStatus()'s result before it has found a live daemon.
NoStatus == [running |-> FALSE, pid |-> 0, version |-> "none"]

\* A CLI process that runs no command.
CliIdle ==
    [op |-> "none", pc |-> "idle", ret |-> "none", pid |-> 0,
     status |-> NoStatus, first |-> NoStatus, installed |-> "none",
     stopped |-> 0, started |-> 0]

\* A process id not yet given to any process.
NoProcess == [st |-> "unborn", version |-> "none", sigterm |-> FALSE]

\* A machine with no daemon, no CLI command and neither file.
HostIdle ==
    [pidFile |-> 0, versionFile |-> "none", installed |-> "none",
     proc |-> [p \in Pids |-> NoProcess],
     cli |-> [c \in Clis |-> CliIdle],
     users |-> {}, calls |-> 0, nextPid |-> 1]

\* isProcessRunning(): process.kill(pid, 0) does not throw.
isProcessRunning(h, pid) ==
    pid \in Pids /\ h.proc[pid].st \in {"spawned", "main", "running"}

\* getDaemonStatus() returns to the function that called it.
StatusReturn(h, c, status) ==
    LET k == h.cli[c]
        k1 == [k EXCEPT !.status = status, !.pc = k.ret]
    IN  [h EXCEPT !.cli[c] =
            IF k.ret = "ensure" THEN [k1 EXCEPT !.first = status] ELSE k1]

\* getDaemonStatus(), one access to the files or the process table at a
\* time: read the PID file, test the process, read the version file of a
\* live daemon or unlink the PID file of a dead one.
getDaemonStatus(h, c) ==
    LET k == h.cli[c]
    IN  CASE k.pc = "gsRead" ->
                IF h.pidFile = 0 THEN StatusReturn(h, c, NoStatus)
                ELSE [h EXCEPT !.cli[c].pid = h.pidFile,
                               !.cli[c].pc = "gsAlive"]
          [] k.pc = "gsAlive" ->
                IF isProcessRunning(h, k.pid)
                THEN [h EXCEPT !.cli[c].pc = "gsVersion"]
                ELSE [h EXCEPT !.cli[c].pc = "gsUnlink"]
          [] k.pc = "gsVersion" ->
                StatusReturn(h, c, [running |-> TRUE, pid |-> k.pid,
                                    version |-> h.versionFile])
          [] k.pc = "gsUnlink" ->
                StatusReturn([h EXCEPT !.pidFile = 0], c, NoStatus)

\* A function calls getDaemonStatus() and goes on at ret.
CallStatus(h, c, ret) ==
    [h EXCEPT !.cli[c].pc = "gsRead", !.cli[c].ret = ret]

\* A variant of the version test that never finds a mismatch.
VersionMismatch_Never(installedVersion, version) == FALSE

\* ensureDaemonRunning()'s test for a restart.
VersionMismatch(installedVersion, version) ==
    /\ installedVersion # "none" /\ version # "none"
    /\ version # installedVersion

\* The command of the CLI process has ended.
CliDone(h, c) == [h EXCEPT !.cli[c].pc = "done"]

\* ensureDaemonRunning() once it has the status: start a daemon when none
\* runs, restart it on a version mismatch, do nothing otherwise.
ensureDaemonRunning(h, c) ==
    LET k == h.cli[c]
        h1 == [h EXCEPT !.cli[c].installed = h.installed]
    IN  IF ~k.status.running THEN CallStatus(h1, c, "start")
        ELSE IF VersionMismatch(h.installed, k.status.version)
        THEN CallStatus(h1, c, "stop")
        ELSE CliDone(h1, c)

\* stopDaemon(), one step at a time: SIGTERM to the daemon of the status,
\* a wait of at most 5 s for its end, SIGKILL when it is still alive, the
\* unlink of the PID file.  ensureDaemonRunning() then calls startDaemon().
stopDaemon(h, c) ==
    LET k == h.cli[c]
        pid == k.status.pid
        after == CallStatus(h, c, "start")
    IN  CASE k.pc = "stop" ->
                {IF ~k.status.running THEN after
                 ELSE [h EXCEPT !.cli[c].pc = "stopKill"]}
          [] k.pc = "stopKill" ->
                {IF ~isProcessRunning(h, pid) THEN after
                 ELSE [h EXCEPT !.proc[pid].sigterm = TRUE,
                                !.cli[c].pc = "stopWait"]}
          [] k.pc = "stopWait" ->
                IF ~isProcessRunning(h, pid)
                THEN {[h EXCEPT !.cli[c].pc = "stopUnlink"]}
                ELSE {[h EXCEPT !.proc[pid].st = "dead",
                                !.cli[c].pc = "stopUnlink"]}
          [] k.pc = "stopUnlink" ->
                {CallStatus([h EXCEPT !.pidFile = 0, !.cli[c].stopped = pid],
                            c, "start")}

\* startDaemon() once it has the status: nothing when a daemon runs, else
\* spawn daemon.js detached, then write the child's pid to the PID file.
startDaemon(h, c) ==
    LET k == h.cli[c]
    IN  CASE k.pc = "start" ->
                IF k.status.running THEN CliDone(h, c)
                ELSE [h EXCEPT !.cli[c].pc = "spawn"]
          [] k.pc = "spawn" ->
                [h EXCEPT !.proc[h.nextPid] =
                              [st |-> "spawned", version |-> h.installed,
                               sigterm |-> FALSE],
                          !.nextPid = @ + 1,
                          !.cli[c].started = h.nextPid,
                          !.cli[c].pc = "writePid"]
          [] k.pc = "writePid" ->
                CliDone([h EXCEPT !.pidFile = k.started], c)

\* The next step of the command a CLI process runs.
CliNext(h, c) ==
    LET pc == h.cli[c].pc
    IN  CASE pc \in {"gsRead", "gsAlive", "gsVersion", "gsUnlink"} ->
                {getDaemonStatus(h, c)}
          [] pc = "ensure" -> {ensureDaemonRunning(h, c)}
          [] pc \in {"stop", "stopKill", "stopWait", "stopUnlink"} ->
                stopDaemon(h, c)
          [] pc \in {"start", "writePid"} -> {startDaemon(h, c)}
          [] pc = "spawn" ->
                IF h.nextPid \in Pids THEN {startDaemon(h, c)} ELSE {}
          [] OTHER -> {}

\* ------------------------------------------------------------ git worktrees

\* The machine whose daemon works in the repository, as far as the names
\* of worktrees and branches need it.
RepoDisk == [machineId |-> "A"]

\* The branch createWorktree() and cleanupWorktree() name for a task.
WorktreeBranch(dk, dn) == <<dn, getWorktreeSuffix(dk)>>

\* The branches of the repository: commit 0 is "no such branch".
RepoBranches(dk) == {WorktreeBranch(dk, dn) : dn \in 1..WorktreeTasks}

\* A repository with one commit on its checked-out branch, no task branch
\* and no linked worktree.
RepoIdle ==
    [head |-> 1, commits |-> 1,
     tip |-> [b \in RepoBranches(RepoDisk) |-> 0],
     worktrees |-> {},
     left |-> 0,
     last |-> [op |-> "none", dn |-> 0, how |-> "none"]]

\* existsSync(worktreePath).
WorktreeDirExists(r, path) == \E wt \in r.worktrees : wt[1] = path

\* `git worktree add <path> -b <branch>`: refuses an existing branch and an
\* existing path; else the branch is created at HEAD and checked out at path.
gitWorktreeAddNewBranch(r, path, branch) ==
    IF r.tip[branch] # 0 \/ WorktreeDirExists(r, path)
    THEN [ok |-> FALSE, repo |-> r]
    ELSE [ok |-> TRUE,
          repo |-> [r EXCEPT !.tip[branch] = r.head,
                             !.worktrees = @ \cup {<<path, branch>>}]]

\* `git worktree add <path> <branch>`: refuses a missing branch, an existing
\* path and a branch checked out in another worktree; else the branch is
\* checked out at path as it is.
gitWorktreeAdd(r, path, branch) ==
    IF \/ r.tip[branch] = 0 \/ WorktreeDirExists(r, path)
       \/ \E wt \in r.worktrees : wt[2] = branch
    THEN [ok |-> FALSE, repo |-> r]
    ELSE [ok |-> TRUE,
          repo |-> [r EXCEPT !.worktrees = @ \cup {<<path, branch>>}]]

\* `git worktree remove <path> --force`: the directory and its registration
\* go; no branch is touched.
gitWorktreeRemove(r, path) ==
    [r EXCEPT !.worktrees = {wt \in @ : wt[1] # path}]

\* A variant of the second attempt that creates the branch anew at HEAD.
createWorktreeRetry_Reset(r, path, branch) ==
    IF WorktreeDirExists(r, path) THEN [ok |-> FALSE, repo |-> r]
    ELSE [ok |-> TRUE,
          repo |-> [r EXCEPT !.tip[branch] = r.head,
                             !.worktrees = @ \cup {<<path, branch>>}]]

\* createWorktree()'s second attempt, after `add -b` failed.
createWorktreeRetry(r, path, branch) == gitWorktreeAdd(r, path, branch)

\* createWorktree() on the repository: the existing directory is returned
\* as it is; else `git worktree add -b`, and when that fails `git worktree
\* add` of the existing branch; how is the log line of the outcome.
createWorktreeIn(r, dk, dn, projectPath) ==
    LET path == getWorktreePath(dk, dn, projectPath)
        branch == WorktreeBranch(dk, dn)
        first == gitWorktreeAddNewBranch(r, path, branch)
        second == createWorktreeRetry(r, path, branch)
    IN  IF WorktreeDirExists(r, path) THEN [how |-> "already", repo |-> r]
        ELSE IF first.ok THEN [how |-> "created", repo |-> first.repo]
        ELSE IF second.ok THEN [how |-> "existing", repo |-> second.repo]
        ELSE [how |-> "failed", repo |-> r]

\* cleanupWorktree() on the repository.
cleanupWorktreeIn(r, dk, dn, projectPath) ==
    LET path == getWorktreePath(dk, dn, projectPath)
    IN  IF ~WorktreeDirExists(r, path) THEN r
        ELSE gitWorktreeRemove(r, path)

\* ------------------------------------------------------------------ config.js

\* The numbers a config file or a caller may hold.
ConfigNumbers == (0 - 1)..ConfigMax

\* The value of the PUSH_MAX_BATCH_SIZE line of the config file: no such
\* line, the decimal text of a number, or a text parseInt makes nothing of.
ConfigValues ==
    {[kind |-> "absent", n |-> 0], [kind |-> "text", n |-> 0]}
    \cup {[kind |-> "number", n |-> n] : n \in ConfigNumbers}

\* String(size).
String(size) == [kind |-> "number", n |-> size]

\* getConfigValue('MAX_BATCH_SIZE', '5'): the value of the line, the
\* default without one.
getConfigValue(file, defaultValue) ==
    IF file.kind = "absent" THEN defaultValue ELSE file

\* parseInt(value, 10): the number the text starts with, NaN otherwise.
parseInt(value) ==
    IF value.kind = "number" THEN [isNaN |-> FALSE, n |-> value.n]
    ELSE [isNaN |-> TRUE, n |-> 0]

\* getMaxBatchSize().
getMaxBatchSize(file) ==
    LET parsed == parseInt(getConfigValue(file, String(5)))
    IN  IF parsed.isNaN THEN 5 ELSE parsed.n

\* setMaxBatchSize(): false for a size outside 1..20, else the line is
\* written by setConfigValue().
setMaxBatchSize(file, size) ==
    IF size < 1 \/ size > 20 THEN [ret |-> FALSE, file |-> file]
    ELSE [ret |-> TRUE, file |-> String(size)]

\* No call of the batch-size functions is followed.
ConfigIdle ==
    [file |-> [kind |-> "absent", n |-> 0], left |-> 0,
     last |-> [op |-> "none", size |-> 0, got |-> 0, ret |-> FALSE],
     env |-> [kind |-> "absent", n |-> 0],
     keyFile |-> "none", keyEnv |-> "none", lastKey |-> "unread"]

\* --------------------------------------------------------- ProjectRegistry

\* Normalized git remotes and local paths.
Remotes == {"github.com/u/x", "github.com/u/y"}
LocalPaths == {"/p", "/q"}

\* _load() without a file: no project and no default.
EmptyDocument == [projects |-> <<>>, defaultProject |-> "null"]

\* gitRemote in this._data.projects
InProjects(doc, gitRemote) ==
    \E i \in 1..Len(doc.projects) : doc.projects[i].remote = gitRemote

\* The localPath of a remote's entry, "null" without an entry.
LocalPathOf(doc, gitRemote) ==
    IF InProjects(doc, gitRemote)
    THEN LET i == CHOOSE k \in 1..Len(doc.projects) :
                      doc.projects[k].remote = gitRemote
         IN  doc.projects[i].localPath
    ELSE "null"

\* A CLI with an empty registry, no projects.json, and a daemon that has
\* not read the file.
ProjectsIdle ==
    [data |-> EmptyDocument,
     file |-> [st |-> "absent", doc |-> EmptyDocument],
     before |-> [st |-> "absent", doc |-> EmptyDocument],
     latest |-> [r \in Remotes |-> "null"],
     op |-> [name |-> "none", remote |-> "none", wasDefault |-> FALSE],
     read |-> [remote |-> "none", got |-> "null", st |-> "absent",
               inOld |-> "null", inNew |-> "null"],
     calls |-> 0, reads |-> 0]

\* --------------------------------------------------------------------- Init

Daemon0(isUp) ==
    [up |-> IF isUp THEN "up" ELSE "off",
     boot |-> "start",
     ticks |-> {},
     tickSeq |-> 0,
     nextTickQ |-> <<>>,
     runningTasks |-> <<>>,
     taskDetails |-> [dn \in Tasks |-> "absent"],
     taskReason |-> [dn \in Tasks |-> ""],
     taskLastOutput |-> [dn \in Tasks |-> -1],
     taskStdoutBuffer |-> [dn \in Tasks |-> <<>>],
     taskProjectPaths |-> [dn \in Tasks |-> "absent"],
     completedToday |-> <<>>,
     idle |-> {},
     runSeq |-> 0,
     reqSeq |-> 0]

\* The entry point has written the PID file and mainLoop the first status
\* snapshot; the initial poll has not begun.
Disk0(m, isUp) ==
    [machineId |-> m,
     registry |-> [dn \in Tasks |-> "ok"],
     worktrees |-> {},
     branches |-> {},
     statusFile |-> IF isUp THEN "snapshot" ELSE "absent",
     updatedAt |-> 0,
     pidFile |-> isUp]

InitWith(ups, ntasks, b) ==
    /\ daemon = [m \in Machines |-> Daemon0(m \in ups)]
    /\ disk = [m \in Machines |-> Disk0(m, m \in ups)]
    /\ children = [m \in Machines |-> {}]
    /\ net = {}
    /\ unsent = {}
    /\ received = <<>>
    /\ bstatus = [dn \in Tasks |-> IF dn <= ntasks THEN "queued" ELSE "absent"]
    /\ bowner = [dn \in Tasks |-> "none"]
    /\ now = 0
    /\ readerSaw = [m \in Machines |-> "nothing"]
    /\ budget = b
    /\ api = ApiIdle /\ host = HostIdle /\ repo = RepoIdle /\ config = ConfigIdle
    /\ projects = ProjectsIdle

\* What the environment may do in one behaviour: ticks per daemon, clock
\* advances, faults of git, spawn() and the poll, requests delivered,
\* reads of the status file; script is what every agent writes to stdout.
Budget(ticks, advances, faults, deliveries, reads, script) ==
    [ticks |-> [m \in Machines |-> ticks], advances |-> advances,
     faults |-> faults, deliveries |-> deliveries, reads |-> reads,
     closes |-> MaxCloses, script |-> script, prs |-> <<>>,
     polls |-> <<>>]

Init ==
    InitWith({"A"}, RunnerTasks,
             Budget(RunnerTicks, 0, 1, MaxDeliveries, MaxReads, <<>>))

\* ------------------------------------------------------------------ actions

\* A handler of daemon m may run: the process is up and no nextTick
\* callback is pending.
Ready(m) == daemon[m].up = "up" /\ daemon[m].nextTickQ = <<>>

\* The handler's effects become the state; b is the budget after the step.
Put(w, b) ==
    /\ daemon' = [daemon EXCEPT ![w.m] = w.d]
    /\ disk' = [disk EXCEPT ![w.m] = w.disk]
    /\ children' = [children EXCEPT ![w.m] = w.kids]
    /\ net' = net \cup w.out
    /\ budget' = [b EXCEPT !.faults = w.faults]

\* poll(): the initial call of mainLoop, or a firing of the interval.
TickStart(m) ==
    /\ Ready(m)
    /\ daemon[m].boot \in {"start", "interval"}
    /\ budget.ticks[m] > 0
    /\ LET w == World(m)
           id == w.d.tickSeq + 1
           t == [id |-> id, pc |-> "start", now |-> now,
                 timedOut |-> timedOutOf(w.d.runningTasks, now),
                 idx |-> 0, victim |-> NoVictim, since |-> 0, slots |-> 0]
           w1 == [w EXCEPT !.d.tickSeq = id,
                           !.d.idle = idleOf(w.d, now),
                           !.d.boot = IF @ = "start" THEN "initial" ELSE @]
       IN  Put(checkTimeouts(w1, t), [budget EXCEPT !.ticks[m] = @ - 1])
    /\ UNCHANGED <<side, unsent, received, bstatus, bowner, now, readerSaw>>

\* The 5 s timer of a sweep fires.
SweepResume(m) ==
    /\ Ready(m)
    /\ \E t \in daemon[m].ticks :
        /\ t.pc = "killWait"
        /\ now >= t.since + KILL_WAIT_MS
        /\ Put(checkTimeoutsResume(World(m), t), budget)
    /\ UNCHANGED <<side, unsent, received, bstatus, bowner, now, readerSaw>>

\* The ways a poll may end: with the todos, with a 401 for an invalid key,
\* without a request for want of an API key, or with the error of the last
\* attempt when the retries are exhausted.
PollResults == {"ok", "401", "noKey", "exhausted"}

\* A variant in which a failed poll yields the todos all the same.
fetchQueuedTasksReturn_Todos(how, todos) == todos

\* What fetchQueuedTasks() returns: the todos of the response, [] when
\* anything was thrown on the way.
fetchQueuedTasksReturn(how, todos) ==
    IF how = "ok" THEN todos ELSE <<>>

\* The ways the poll under way may end: the one the environment has in
\* store, else any failure the budget of faults allows.
PollHows ==
    IF budget.polls # <<>> THEN {Head(budget.polls)}
    ELSE IF budget.faults > 0 THEN {"ok", "exhausted"} ELSE {"ok"}

\* fetchQueuedTasks() returns: the queued tasks, or [] when the request
\* failed.
PollReturn(m) ==
    /\ Ready(m)
    /\ \E t \in daemon[m].ticks :
        /\ t.pc = "pollWait"
        /\ \E how \in PollHows :
           LET w0 == World(m)
               w1 == IF how # "ok" /\ budget.polls = <<>>
                     THEN [w0 EXCEPT !.faults = @ - 1] ELSE w0
               tasks == fetchQueuedTasksReturn(how, QueuedFrom(1))
           IN  \E w \in pollAndExecuteResume(w1, t, tasks) :
                  Put(w, [budget EXCEPT !.polls = IF @ # <<>> THEN Tail(@)
                                                 ELSE @])
    /\ UNCHANGED <<side, unsent, received, bstatus, bowner, now, readerSaw>>

\* The 'error' event of a child that could not be spawned, emitted from
\* process.nextTick, and the 'close' event that follows it at once: the
\* error handler removes the record, so handleTaskCompletion finds none.
SpawnError(m) ==
    /\ daemon[m].up = "up"
    /\ daemon[m].nextTickQ # <<>>
    /\ LET w == World(m)
           id == Head(w.d.nextTickQ)
           c == CHOOSE c \in w.kids : c.id = id
           w1 == [w EXCEPT !.d.nextTickQ = Tail(@),
                           !.d.runningTasks = Delete(@, c.dn),
                           !.kids = @ \ {c}]
           w2 == updateTaskStatus(w1, c.dn, "failed", "error", "", id, "", 0)
           w3 == updateStatusFile(taskDetailsDelete(w2, c.dn))
       IN  Put(handleTaskCompletion(w3, c.dn, "1"), budget)
    /\ UNCHANGED <<side, unsent, received, bstatus, bowner, now, readerSaw>>

\* The stdout 'data' handler for one line: a blank line is skipped; any
\* other line advances the last-output time, enters the buffer and is
\* checked for a stuck phrase.
onStdoutLine(w, dn, line) ==
    IF line = "blank" THEN w
    ELSE
    LET w1 == [w EXCEPT !.d.taskLastOutput[dn] = w.now,
                        !.d.taskStdoutBuffer[dn] = PushLine(@, line)]
        stuckReason == checkStuckPatterns(line)
    IN  IF stuckReason # ""
        THEN updateTaskDetail(w1, dn, "stuck", stuckReason) ELSE w1

\* A child writes its next line to stdout.
ChildData(m) ==
    /\ Ready(m)
    /\ \E c \in children[m] :
        /\ c.st = "running" /\ c.sig # "KILL" /\ c.todo # <<>>
        /\ Put(onStdoutLine([World(m) EXCEPT
                    !.kids = (@ \ {c}) \cup {[c EXCEPT !.todo = Tail(@)]}],
                    c.dn, Head(c.todo)),
               budget)
    /\ UNCHANGED <<side, unsent, received, bstatus, bowner, now, readerSaw>>

\* The exit codes a child may close with: killed by the signal it was
\* sent, or, once it has written its output, by exiting on its own.
ExitCodes(c) ==
    (IF c.sig # "none" THEN {"signal"} ELSE {})
    \cup (IF c.sig # "KILL" /\ c.todo = <<>> THEN {"0", "1"} ELSE {})

\* What createPRForTask() will meet at a close with the given code: the
\* next of the outcomes the environment has in store, no new commit when
\* it has none.
NextPr(code) ==
    IF code = "0" /\ budget.prs # <<>> THEN Head(budget.prs) ELSE "noCommits"

\* A child closes: the 'close' handler.
ChildClose(m) ==
    /\ Ready(m)
    /\ \E c \in children[m] :
        /\ c.st = "running"
        /\ budget.closes > 0
        /\ \E code \in ExitCodes(c) :
            Put(handleTaskCompletion([World(m) EXCEPT !.kids = @ \ {c},
                                                      !.pr = NextPr(code)],
                                     c.dn, code),
                [budget EXCEPT !.closes = @ - 1,
                               !.prs = IF code = "0" /\ @ # <<>>
                                       THEN Tail(@) ELSE @])
    /\ UNCHANGED <<side, unsent, received, bstatus, bowner, now, readerSaw>>

\* The backend handles one request: an atomic claim is granted iff the
\* task is queued; a status write sets the status.
BackendReceive ==
    \E r \in net :
        /\ budget.deliveries > 0
        /\ budget' = [budget EXCEPT !.deliveries = @ - 1]
        /\ net' = net \ {r}
        /\ IF r.kind = "claim"
           THEN /\ received' = Append(received,
                        [req |-> r, claimed |-> ClaimAnswer(r)])
                /\ bstatus' = IF ClaimAnswer(r)
                              THEN [bstatus EXCEPT ![r.dn] = "running"] ELSE bstatus
                /\ bowner' = IF ClaimAnswer(r)
                             THEN [bowner EXCEPT ![r.dn] = r.from] ELSE bowner
           ELSE /\ received' = Append(received, [req |-> r, claimed |-> FALSE])
                /\ bstatus' = [bstatus EXCEPT ![r.dn] = r.kind]
                /\ UNCHANGED bowner
        /\ UNCHANGED <<side, daemon, disk, children, unsent, now, readerSaw>>

\* SIGTERM, SIGINT or an uncaught exception: cleanup() up to the point
\* where writeFileSync has opened daemon_status.json, truncating it.
Cleanup(m) ==
    /\ Ready(m)
    /\ LET w == cleanup(World(m))
       IN  /\ daemon' = [daemon EXCEPT ![m] = [w.d EXCEPT !.up = "exiting"]]
           /\ disk' = [disk EXCEPT ![m] = [w.disk EXCEPT !.statusFile = "truncated"]]
           /\ children' = [children EXCEPT ![m] = w.kids]
           /\ unsent' = unsent \cup w.out
    /\ UNCHANGED <<side, net, received, bstatus, bowner, now, readerSaw, budget>>

\* cleanup() writes {running:false, stoppedAt} and calls process.exit(0).
CleanupFinish(m) ==
    /\ daemon[m].up = "exiting"
    /\ daemon' = [daemon EXCEPT ![m].up = "exited"]
    /\ disk' = [disk EXCEPT ![m].statusFile = "stopped"]
    /\ UNCHANGED <<side, children, net, unsent, received, bstatus, bowner, now,
                   readerSaw, budget>>

\* Another process reads daemon_status.json and parses it as JSON.
ReadStatusFile(m) ==
    /\ budget.reads > 0
    /\ disk[m].statusFile # "absent"
    /\ readerSaw' = [readerSaw EXCEPT ![m] =
            IF disk[m].statusFile = "truncated" THEN "partial" ELSE "json"]
    /\ budget' = [budget EXCEPT !.reads = @ - 1]
    /\ UNCHANGED <<side, daemon, disk, children, net, unsent, received, bstatus,
                   bowner, now>>

\* Time passes.
ClockSteps == {KILL_WAIT_MS, TASK_TIMEOUT_MS}

Advance ==
    /\ budget.advances > 0
    /\ \E dt \in ClockSteps : now' = now + dt
    /\ budget' = [budget EXCEPT !.advances = @ - 1]
    /\ UNCHANGED <<side, daemon, disk, children, net, unsent, received, bstatus,
                   bowner, readerSaw>>

\* The task runner: ticks, dispatch, child exits, the backend, shutdown
\* and a reader of the status file.  No task runs long enough to time out
\* and the agents write nothing.
Next ==
    \/ \E m \in Machines : TickStart(m)
    \/ \E m \in Machines : PollReturn(m)
    \/ \E m \in Machines : SpawnError(m)
    \/ \E m \in Machines : ChildClose(m)
    \/ BackendReceive
    \/ \E m \in Machines : Cleanup(m)
    \/ \E m \in Machines : CleanupFinish(m)
    \/ \E m \in Machines : ReadStatusFile(m)

Spec == Init /\ [][Next]_vars

\* The timeout sweep: tasks run past the limit while ticks, child exits and
\* the backend go on.
InitTimeout ==
    InitWith({"A"}, TimeoutTasks,
             Budget(TimeoutTicks, TimeoutAdvances, 0, TimeoutDeliveries, 0, <<>>))

NextTimeout ==
    \/ \E m \in Machines : TickStart(m)
    \/ \E m \in Machines : SweepResume(m)
    \/ \E m \in Machines : PollReturn(m)
    \/ \E m \in Machines : ChildClose(m)
    \/ BackendReceive
    \/ Advance

SpecTimeout == InitTimeout /\ [][NextTimeout]_vars

\* One task that times out and is offered again by the backend: the ticks
\* of the timeout sweep, with one more tick to dispatch it again.
InitRedispatch ==
    InitWith({"A"}, 1,
             Budget(RedispatchTicks, TimeoutAdvances, 0, TimeoutDeliveries, 0, <<>>))

SpecRedispatch == InitRedispatch /\ [][NextTimeout]_vars

\* Two daemons on two machines and one queued task that both may poll.
InitRace ==
    InitWith({"A", "B"}, 1, Budget(RaceTicks, 0, 0, RaceDeliveries, 0, <<>>))

NextRace ==
    \/ \E m \in Machines : TickStart(m)
    \/ \E m \in Machines : PollReturn(m)
    \/ \E m \in Machines : ChildClose(m)
    \/ BackendReceive

SpecRace == InitRace /\ [][NextRace]_vars

\* More queued tasks than slots: ticks that overlap, a poll, a git command
\* or a spawn that may fail, dispatch, child exits and the backend.
InitCap ==
    InitWith({"A"}, MaxTasks,
             [Budget(CapTicks, 0, 1, CapDeliveries, 0, <<>>)
                 EXCEPT !.closes = CapCloses])

NextCap ==
    \/ \E m \in Machines : TickStart(m)
    \/ \E m \in Machines : PollReturn(m)
    \/ \E m \in Machines : SpawnError(m)
    \/ \E m \in Machines : ChildClose(m)
    \/ BackendReceive

SpecCap == InitCap /\ [][NextCap]_vars

\* Daemon A after its initial poll returned the tasks 1..DispatchRunning
\* and dispatched them all.
Dispatched ==
    LET w0 == [m |-> "A", d |-> [Daemon0(TRUE) EXCEPT !.boot = "interval", !.tickSeq = 1],
               disk |-> Disk0("A", TRUE), kids |-> {}, out |-> {}, now |-> 0,
               faults |-> 0, script |-> <<>>, ok |-> TRUE,
               pr |-> "noCommits"]
    IN  CHOOSE w \in DispatchAll(w0, [i \in 1..DispatchRunning |-> i]) : TRUE

\* Dispatch at the cap: the tasks of the initial poll are running and the
\* backend has handled their claims and started reports, in the order they
\* were issued; the remaining tasks have been queued since.
InitDispatchWith(closes, prs) ==
    LET w == updateStatusFile(Dispatched) IN
    /\ daemon = [m \in Machines |-> IF m = "A" THEN w.d ELSE Daemon0(FALSE)]
    /\ disk = [m \in Machines |-> IF m = "A" THEN w.disk ELSE Disk0(m, FALSE)]
    /\ children = [m \in Machines |-> IF m = "A" THEN w.kids ELSE {}]
    /\ net = {}
    /\ unsent = {}
    /\ received = [i \in 1..Cardinality(w.out) |->
                      LET r == CHOOSE x \in w.out : x.id = i
                      IN  [req |-> r, claimed |-> r.kind = "claim"]]
    /\ bstatus = [dn \in Tasks |-> IF dn <= DispatchRunning THEN "running" ELSE "queued"]
    /\ bowner = [dn \in Tasks |-> IF dn <= DispatchRunning THEN "A" ELSE "none"]
    /\ now = 0
    /\ readerSaw = [m \in Machines |-> "nothing"]
    /\ budget = [Budget(DispatchTicks, 0, 1, DispatchDeliveries, 0, <<>>)
                    EXCEPT !.closes = closes, !.prs = prs]
    /\ api = ApiIdle /\ host = HostIdle /\ repo = RepoIdle /\ config = ConfigIdle
    /\ projects = ProjectsIdle

InitDispatch == InitDispatchWith(DispatchCloses, <<>>)

NextDispatch ==
    \/ \E m \in Machines : TickStart(m)
    \/ \E m \in Machines : PollReturn(m)
    \/ \E m \in Machines : SpawnError(m)
    \/ \E m \in Machines : ChildClose(m)
    \/ BackendReceive

SpecDispatch == InitDispatch /\ [][NextDispatch]_vars

\* What the registry may hold for a task's repository: a path that exists,
\* no entry, a path that is gone; or the task names no repository.
RegistryStates == {"ok", "unregistered", "missing", "noremote"}

\* Queued tasks whose repositories are registered or not, in every
\* combination.
InitRegistry ==
    \E reg \in [1..RegistryTasks -> RegistryStates] :
        /\ daemon = [m \in Machines |-> Daemon0(m = "A")]
        /\ disk = [m \in Machines |->
                      [Disk0(m, m = "A") EXCEPT !.registry =
                          [dn \in Tasks |-> IF dn <= RegistryTasks THEN reg[dn] ELSE "ok"]]]
        /\ children = [m \in Machines |-> {}]
        /\ net = {}
        /\ unsent = {}
        /\ received = <<>>
        /\ bstatus = [dn \in Tasks |-> IF dn <= RegistryTasks THEN "queued" ELSE "absent"]
        /\ bowner = [dn \in Tasks |-> "none"]
        /\ now = 0
        /\ readerSaw = [m \in Machines |-> "nothing"]
        /\ budget = Budget(RegistryTicks, 0, 0, RegistryDeliveries, 0, <<>>)
        /\ api = ApiIdle /\ host = HostIdle /\ repo = RepoIdle /\ config = ConfigIdle
    /\ projects = ProjectsIdle

SpecRegistry == InitRegistry /\ [][NextRace]_vars

\* The fetch of the call settles.
ApiSettle ==
    /\ api.pc = "fetch" /\ api.script # <<>>
    /\ api' = apiRequestSettle(api)
    /\ UNCHANGED <<main, host, repo, config, projects>>

\* The timer of the call's wait fires.
ApiRetry ==
    /\ api.pc = "wait"
    /\ api' = apiRequestRetry(api)
    /\ UNCHANGED <<main, host, repo, config, projects>>

\* The daemons of the machines are not started and the backend is empty.
MainAtRest ==
    /\ daemon = [m \in Machines |-> Daemon0(FALSE)]
    /\ disk = [m \in Machines |-> Disk0(m, FALSE)]
    /\ children = [m \in Machines |-> {}]
    /\ net = {}
    /\ unsent = {}
    /\ received = <<>>
    /\ bstatus = [dn \in Tasks |-> "absent"]
    /\ bowner = [dn \in Tasks |-> "none"]
    /\ now = 0
    /\ readerSaw = [m \in Machines |-> "nothing"]
    /\ budget = Budget(0, 0, 0, 0, 0, <<>>)

\* A CLI process is started with a command that calls startDaemon() or
\* ensureDaemonRunning().
CliLaunch(c, op) ==
    /\ c \in host.users /\ host.calls > 0
    /\ host.cli[c].pc \in {"idle", "done"}
    /\ host' = CallStatus([host EXCEPT !.calls = @ - 1,
                                        !.cli[c] = [CliIdle EXCEPT !.op = op]],
                          c, op)
    /\ UNCHANGED <<main, api, repo, config, projects>>

\* A CLI process takes its next step; a process that waits for the daemon
\* to end goes on when it has ended or when the wait is over.
CliStep(c) ==
    /\ \E h \in CliNext(host, c) : host' = h
    /\ UNCHANGED <<main, api, repo, config, projects>>

\* The entry point of daemon.js: the signal handlers are installed and the
\* PID file is written with the process's own pid.
DaemonEntry(p) ==
    /\ host.proc[p].st = "spawned"
    /\ host' = [host EXCEPT !.proc[p].st = "main", !.pidFile = p]
    /\ UNCHANGED <<main, api, repo, config, projects>>

\* mainLoop() writes the version file and goes on to poll.
DaemonMain(p) ==
    /\ host.proc[p].st = "main"
    /\ host' = [host EXCEPT !.proc[p].st = "running",
                            !.versionFile = host.proc[p].version]
    /\ UNCHANGED <<main, api, repo, config, projects>>

\* SIGTERM reaches a daemon: before the handlers are installed the process
\* just ends; afterwards cleanup() unlinks the PID file and exits.
DaemonSigterm(p) ==
    /\ host.proc[p].sigterm /\ host.proc[p].st \in {"spawned", "running"}
    /\ host' = [host EXCEPT !.proc[p].st = "dead",
                            !.pidFile = IF host.proc[p].st = "running"
                                        THEN 0 ELSE @]
    /\ UNCHANGED <<main, api, repo, config, projects>>

NextHost ==
    \/ \E c \in Clis, op \in {"start", "ensure"} : CliLaunch(c, op)
    \/ \E c \in Clis : CliStep(c)
    \/ \E p \in Pids : DaemonEntry(p)
    \/ \E p \in Pids : DaemonMain(p)
    \/ \E p \in Pids : DaemonSigterm(p)

\* A daemon runs, started from a package of some version; one CLI process
\* after another runs a command, with the package of some version installed.
InitRestart ==
    /\ MainAtRest
    /\ api = ApiIdle /\ repo = RepoIdle /\ config = ConfigIdle
    /\ projects = ProjectsIdle
    /\ \E v \in Versions, installed \in Versions : \E vf \in {v, "none"} :
          host = [HostIdle EXCEPT
                    !.pidFile = 1, !.versionFile = vf,
                    !.installed = installed,
                    !.proc[1] = [st |-> "running", version |-> v,
                                 sigterm |-> FALSE],
                    !.users = {"c1"}, !.calls = MaxCalls, !.nextPid = 2]

SpecRestart == InitRestart /\ [][NextHost]_vars

\* No daemon runs; the PID file is absent or names a process that is dead;
\* two CLI processes run commands at the same time.
InitStart ==
    /\ MainAtRest
    /\ api = ApiIdle /\ repo = RepoIdle /\ config = ConfigIdle
    /\ projects = ProjectsIdle
    /\ \E installed \in Versions, vf \in Versions, pf \in {0, 1} :
          host = [HostIdle EXCEPT
                    !.pidFile = pf, !.versionFile = vf,
                    !.installed = installed,
                    !.proc[1] = [st |-> "dead", version |-> vf,
                                 sigterm |-> FALSE],
                    !.users = Clis, !.calls = MaxCalls, !.nextPid = 2]

SpecStart == InitStart /\ [][NextHost]_vars

\* The repository after an operation on it has run.
RepoDid(r, op, dn, how) ==
    [r EXCEPT !.left = repo.left - 1,
              !.last = [op |-> op, dn |-> dn, how |-> how]]

\* executeTask() creates the worktree of a task.
WorktreeCreate(dn) ==
    /\ repo.left > 0
    /\ LET res == createWorktreeIn(repo, RepoDisk, dn, "project")
       IN  repo' = RepoDid(res.repo, "create", dn, res.how)
    /\ UNCHANGED <<main, api, host, config, projects>>

\* The daemon removes the worktree of a task.
WorktreeCleanup(dn) ==
    /\ repo.left > 0
    /\ repo' = RepoDid(cleanupWorktreeIn(repo, RepoDisk, dn, "project"),
                       "cleanup", dn, "none")
    /\ UNCHANGED <<main, api, host, config, projects>>

\* The agent commits in the worktree of a task.
AgentCommit(dn) ==
    /\ repo.left > 0
    /\ <<getWorktreePath(RepoDisk, dn, "project"),
         WorktreeBranch(RepoDisk, dn)>> \in repo.worktrees
    /\ repo.commits < WorktreeCommits
    /\ repo' = RepoDid([repo EXCEPT !.commits = @ + 1,
                                    !.tip[WorktreeBranch(RepoDisk, dn)] =
                                        repo.commits + 1],
                       "commit", dn, "none")
    /\ UNCHANGED <<main, api, host, config, projects>>

\* The branch checked out in the project directory gets a commit.
ProjectCommit ==
    /\ repo.left > 0
    /\ repo.commits < WorktreeCommits
    /\ repo' = RepoDid([repo EXCEPT !.commits = @ + 1,
                                    !.head = repo.commits + 1],
                       "project", 0, "none")
    /\ UNCHANGED <<main, api, host, config, projects>>

InitWorktree ==
    /\ MainAtRest
    /\ api = ApiIdle /\ host = HostIdle /\ config = ConfigIdle
    /\ projects = ProjectsIdle
    /\ repo = [RepoIdle EXCEPT !.left = WorktreeOps]

NextWorktree ==
    \/ \E dn \in 1..WorktreeTasks : WorktreeCreate(dn)
    \/ \E dn \in 1..WorktreeTasks : WorktreeCleanup(dn)
    \/ \E dn \in 1..WorktreeTasks : AgentCommit(dn)
    \/ ProjectCommit

SpecWorktree == InitWorktree /\ [][NextWorktree]_vars

\* A caller reads the batch size.
GetMaxBatchSize ==
    /\ config.left > 0
    /\ config' = [config EXCEPT
                    !.left = @ - 1,
                    !.last = [op |-> "get", size |-> 0, ret |-> TRUE,
                              got |-> getMaxBatchSize(config.file)]]
    /\ UNCHANGED <<main, api, host, repo, projects>>

\* A caller sets the batch size.
SetMaxBatchSize(size) ==
    /\ config.left > 0
    /\ LET res == setMaxBatchSize(config.file, size)
       IN  config' = [config EXCEPT
                        !.left = @ - 1, !.file = res.file,
                        !.last = [op |-> "set", size |-> size, got |-> 0,
                                  ret |-> res.ret]]
    /\ UNCHANGED <<main, api, host, repo, projects>>

\* Any config file, then any calls of the two functions.
InitConfig ==
    /\ MainAtRest
    /\ api = ApiIdle /\ host = HostIdle /\ repo = RepoIdle
    /\ projects = ProjectsIdle
    /\ \E file \in ConfigValues :
          config = [ConfigIdle EXCEPT !.file = file, !.left = ConfigCalls]

NextConfig ==
    \/ GetMaxBatchSize
    \/ \E size \in ConfigNumbers : SetMaxBatchSize(size)

SpecConfig == InitConfig /\ [][NextConfig]_vars

\* One call of apiRequest(), for every way its fetches may go.
InitApi ==
    /\ MainAtRest
    /\ host = HostIdle /\ repo = RepoIdle /\ config = ConfigIdle
    /\ projects = ProjectsIdle
    /\ \E retry \in BOOLEAN, script \in [1..ApiOutcomes -> FetchOutcomes] :
          api = ApiCall(retry, script)

NextApi == ApiSettle \/ ApiRetry

SpecApi == InitApi /\ [][NextApi]_vars

\* What an agent may write: n lines, the p-th a JSON object with a
\* session_id, the others all text or all blank.
Scripts ==
    {[i \in 1..n |-> IF i = p THEN "sid" ELSE fill] :
        n \in 1..StdoutLines, p \in 1..StdoutLines, fill \in {"text", "blank"}}

\* One task whose agent writes a script to stdout and exits.
InitStdout ==
    \E s \in {x \in Scripts : "sid" \in SeqToSet(x)} :
        InitWith({"A"}, 1, Budget(1, 0, 0, 1, 0, s))

NextStdout ==
    \/ \E m \in Machines : TickStart(m)
    \/ \E m \in Machines : PollReturn(m)
    \/ \E m \in Machines : ChildData(m)
    \/ \E m \in Machines : ChildClose(m)
    \/ BackendReceive

SpecStdout == InitStdout /\ [][NextStdout]_vars

\* Date.now() when the daemon starts, and the steps of the clock between
\* the events of a task that writes now and then.
IdleEpoch == 1000
IdleClockSteps == {STUCK_WARNING_THRESHOLD, STUCK_IDLE_THRESHOLD}

IdleAdvance ==
    /\ budget.advances > 0
    /\ \E dt \in IdleClockSteps : now' = now + dt
    /\ budget' = [budget EXCEPT !.advances = @ - 1]
    /\ UNCHANGED <<side, daemon, disk, children, net, unsent, received, bstatus,
                   bowner, readerSaw>>

\* What an agent may write: blank lines and lines of text.
IdleScripts ==
    UNION {[1..n -> {"text", "blank"}] : n \in 1..IdleLines}

\* One task whose agent writes its lines at any time while ticks go by.
InitIdle ==
    \E s \in IdleScripts :
        /\ daemon = [m \in Machines |-> Daemon0(m = "A")]
        /\ disk = [m \in Machines |-> Disk0(m, m = "A")]
        /\ children = [m \in Machines |-> {}]
        /\ net = {}
        /\ unsent = {}
        /\ received = <<>>
        /\ bstatus = [dn \in Tasks |-> IF dn = 1 THEN "queued" ELSE "absent"]
        /\ bowner = [dn \in Tasks |-> "none"]
        /\ now = IdleEpoch
        /\ readerSaw = [m \in Machines |-> "nothing"]
        /\ budget = Budget(IdleTicks, IdleAdvances, 0, IdleDeliveries, 0, s)
        /\ api = ApiIdle /\ host = HostIdle /\ repo = RepoIdle /\ config = ConfigIdle
    /\ projects = ProjectsIdle

NextIdle ==
    \/ \E m \in Machines : TickStart(m)
    \/ \E m \in Machines : PollReturn(m)
    \/ \E m \in Machines : ChildData(m)
    \/ \E m \in Machines : ChildClose(m)
    \/ BackendReceive
    \/ IdleAdvance

SpecIdle == InitIdle /\ [][NextIdle]_vars

\* ------------------------------------------------------------------- claims

\* The backend has answered claimed:true to machine m's claim of run `run`
\* of task dn.
ClaimGranted(m, dn, run) ==
    \E i \in 1..Len(received) :
        /\ received[i].req.kind = "claim"
        /\ received[i].req.from = m
        /\ received[i].req.dn = dn
        /\ received[i].req.run = run
        /\ received[i].claimed

\* A worktree directory of task dn exists on machine m.
WorktreeExists(m, dn) == \E p \in disk[m].worktrees : p[1] = dn

\* C1 (claim-before-work): every agent child process and every worktree of
\* a running task exists only after the backend has answered this machine's
\* atomic claim for that task with claimed:true.
C1_ClaimBeforeWork ==
    \A m \in Machines :
        /\ \A c \in children[m] : ClaimGranted(m, c.dn, c.id)
        /\ \A i \in 1..Len(daemon[m].runningTasks) :
              WorktreeExists(m, daemon[m].runningTasks[i].dn)
                  => ClaimGranted(m, daemon[m].runningTasks[i].dn,
                                  daemon[m].runningTasks[i].child)

\* A failed report with a daemon_shutdown event for task dn from machine m.
IsShutdownReport(r, m, dn) ==
    /\ r.from = m /\ r.dn = dn
    /\ r.kind = "failed" /\ r.event = "daemon_shutdown"

\* Machine m has issued or delivered a status write of kind k for task dn.
StatusWritten(m, dn, k) ==
    \/ \E r \in net : r.from = m /\ r.dn = dn /\ r.kind = k
    \/ \E i \in 1..Len(received) :
          received[i].req.from = m /\ received[i].req.dn = dn
              /\ received[i].req.kind = k

\* C2 (two-machine race): when two machines claim the same queued task and
\* one is answered claimed:true, the machine answered claimed:false has no
\* worktree and no child for the task and writes no status for it.
C2_LoserDoesNothing ==
    \A i \in 1..Len(received) :
        LET a == received[i] IN
        (/\ a.req.kind = "claim" /\ ~a.claimed
         /\ \E j \in 1..Len(received) :
               /\ received[j].req.kind = "claim" /\ received[j].claimed
               /\ received[j].req.dn = a.req.dn
               /\ received[j].req.from # a.req.from) =>
            /\ ~WorktreeExists(a.req.from, a.req.dn)
            /\ \A c \in children[a.req.from] : c.dn # a.req.dn
            /\ \A k \in {"running", "failed", "session_finished"} :
                  ~StatusWritten(a.req.from, a.req.dn, k)

\* C3 (shutdown completes backend): once the daemon has exited after
\* cleanup(), for every task that was in the running set the failed report
\* with the daemon_shutdown event has reached the backend or is on its way.
C3_ShutdownCompletesBackend ==
    \A m \in Machines :
        daemon[m].up = "exited" =>
            \A i \in 1..Len(daemon[m].runningTasks) :
                \/ \E r \in net :
                      IsShutdownReport(r, m, daemon[m].runningTasks[i].dn)
                \/ \E j \in 1..Len(received) :
                      IsShutdownReport(received[j].req, m,
                                       daemon[m].runningTasks[i].dn)

\* Task dn leaves machine m's running set in this step: its record is
\* removed, or the daemon shuts down while holding it.
LeavesRunningSet(m, dn) ==
    /\ Has(daemon[m].runningTasks, dn)
    /\ \/ ~Has(daemon'[m].runningTasks, dn)
       \/ daemon[m].up = "up" /\ daemon'[m].up = "exiting"

\* C4 (no orphan worktrees): when a task leaves the running set, by any
\* path, its worktree directory is absent afterwards; no branch is ever
\* deleted.
C4_NoOrphanWorktrees ==
    [][\A m \in Machines :
          /\ \A dn \in Tasks :
                LeavesRunningSet(m, dn) => ~WorktreeExists(m, dn)'
          /\ disk[m].branches \subseteq disk'[m].branches]_vars

\* C5 (status file atomicity): a reader of daemon_status.json never obtains
\* a partial document.
C5_StatusFileAtomic ==
    \A m \in Machines : readerSaw[m] # "partial"

\* The terminal reports of a run that was started: every session_finished,
\* and every failed report but those sent before the started report is
\* issued (missing project path, worktree creation failure).
IsTerminalOfStartedRun(r) ==
    \/ r.kind = "session_finished"
    \/ r.kind = "failed" /\ r.detail \notin {"path", "worktree"}

\* Before position i the backend has handled a request of the same machine
\* and run whose kind is k.
HandledBefore(i, k) ==
    \E j \in 1..(i - 1) :
        /\ received[j].req.kind = k
        /\ received[j].req.from = received[i].req.from
        /\ received[j].req.run = received[i].req.run

\* C8 (status-report ordering): the backend handles the requests of a run
\* in the order claim, started report, terminal report.
C8_ReportOrder ==
    \A i \in 1..Len(received) :
        /\ received[i].req.kind = "running" => HandledBefore(i, "claim")
        /\ IsTerminalOfStartedRun(received[i].req) => HandledBefore(i, "running")

\* The children of task dn on machine m that are alive: spawned, not
\* closed, not sent SIGKILL.
LiveChildren(m, dn) ==
    {c \in children[m] : c.dn = dn /\ c.st = "running" /\ c.sig # "KILL"}

\* C6 (at-most-one local): for every display number the daemon holds at
\* most one running-task record and has at most one live child.
C6_AtMostOneLocal ==
    \A m \in Machines, dn \in Tasks :
        /\ Cardinality({i \in 1..Len(daemon[m].runningTasks) :
                            daemon[m].runningTasks[i].dn = dn}) <= 1
        /\ Cardinality(LiveChildren(m, dn)) <= 1

\* C7 (concurrency cap): the daemon never holds more than
\* MAX_CONCURRENT_TASKS running-task records, however many tasks are queued
\* and however ticks and child exits interleave.
C7_ConcurrencyCap ==
    \A m \in Machines : Len(daemon[m].runningTasks) <= MAX_CONCURRENT_TASKS

\* Every slot is in use while a further task is still queued at the
\* backend and a poll is outstanding.
C7_Witness ==
    \E m \in Machines :
        /\ Len(daemon[m].runningTasks) = MAX_CONCURRENT_TASKS
        /\ \E t \in daemon[m].ticks : t.pc = "pollWait"
        /\ \E dn \in Tasks :
              bstatus[dn] = "queued" /\ ~Has(daemon[m].runningTasks, dn)

\* The requests issued so far by any machine, delivered or not.
Issued == net \cup unsent \cup {received[i].req : i \in 1..Len(received)}

\* C10 (session id capture): when the agent has written a line that is a
\* JSON object with a session_id, wherever in its output, and exits with
\* code 0, the session_finished report carries that session_id.
C10_SessionIdCaptured ==
    \A r \in Issued :
        (r.kind = "session_finished"
            /\ \E i \in 1..Len(budget.script) : budget.script[i] = "sid")
        => r.sid = "S1"

\* The 5 s wait of sweep t on machine m ends in this step.
SweepResumed(m, t) ==
    /\ t \in daemon[m].ticks
    /\ t.pc = "killWait"
    /\ t \notin daemon'[m].ticks

\* The running-task records of machine m that are over the limit now.
Overdue(m) ==
    {r \in SeqToSet(daemon[m].runningTasks) : now - r.startTime > TASK_TIMEOUT_MS}

\* C9 as stated (wall-clock timeout): every task a tick found over the
\* limit is sent SIGTERM by that tick's sweep; the sweep passes none over.
C9_EveryOverdueTaskSwept ==
    [][\A m \in Machines : \A t \in daemon[m].ticks :
          (SweepResumed(m, t) /\ t.idx < Len(t.timedOut))
              => \E u \in daemon'[m].ticks :
                    u.id = t.id /\ u.pc = "killWait" /\ u.idx = t.idx + 1]_vars

\* A tick starts on machine m: it collects exactly the records over the
\* limit, and sends SIGTERM to the child of the first.
TickCollectsOverdue(m) ==
    daemon'[m].tickSeq = daemon[m].tickSeq + 1 =>
        IF Overdue(m) = {} THEN children'[m] = children[m]
        ELSE \E u \in daemon'[m].ticks :
                /\ u.id = daemon'[m].tickSeq
                /\ u.pc = "killWait"
                /\ u.now = now
                /\ SeqToSet(u.timedOut) = {r.dn : r \in Overdue(m)}
                /\ u.victim \in Overdue(m)
                /\ u.victim.dn = u.timedOut[u.idx]
                /\ \A c \in children'[m] :
                      c.id = u.victim.child => c.sig \in {"TERM", "KILL"}

\* The wait of sweep t ends: 5 s have passed since SIGTERM, the child has
\* SIGKILL, the record is gone, the failed report carries the elapsed
\* seconds, and the sweep goes on with the next collected task that is
\* still in the running set.
SweepKills(m, t) ==
    LET dn == t.timedOut[t.idx]
        rest == {j \in (t.idx + 1)..Len(t.timedOut) :
                    Has(daemon'[m].runningTasks, t.timedOut[j])}
    IN  /\ now >= t.since + KILL_WAIT_MS
        /\ \A c \in children[m] :
              c.id = t.victim.child => c.sig \in {"TERM", "KILL"}
        /\ \A c \in children'[m] : c.id = t.victim.child => c.sig = "KILL"
        /\ ~Has(daemon'[m].runningTasks, dn)
        /\ \E r \in net' \ net :
              /\ r.from = m /\ r.dn = dn
              /\ r.kind = "failed" /\ r.detail = "timeout"
              /\ r.secs = FloorSeconds(t.now - t.victim.startTime)
              /\ r.secs >= FloorSeconds(TASK_TIMEOUT_MS)
        /\ IF rest = {}
           THEN \A u \in daemon'[m].ticks : u.id = t.id => u.pc # "killWait"
           ELSE \E u \in daemon'[m].ticks :
                   /\ u.id = t.id /\ u.pc = "killWait"
                   /\ u.idx \in rest /\ \A j \in rest : u.idx <= j

\* C9 (wall-clock timeout), amended: at every tick the tasks over the limit
\* are collected and handled one at a time; each collected task that is
\* still in the running set when the sweep reaches it is sent SIGTERM, 5 s
\* later SIGKILL, removed from the running set, and reported failed with
\* "Task timed out after Ns (limit: 3600s)", N the whole seconds it ran.
C9_TimeoutSweep ==
    [][\A m \in Machines :
          /\ TickCollectsOverdue(m)
          /\ \A t \in daemon[m].ticks : SweepResumed(m, t) => SweepKills(m, t)]_vars

\* A sweep has killed a task and reported its timeout.
C9_Witness ==
    \E m \in Machines :
        /\ \E i \in 1..Len(daemon[m].completedToday) :
              daemon[m].completedToday[i].status = "timeout"
        /\ \E r \in net :
              r.from = m /\ r.kind = "failed" /\ r.detail = "timeout"
                  /\ r.secs >= FloorSeconds(TASK_TIMEOUT_MS)
        /\ \E c \in children[m] : c.sig = "KILL"

\* The poll of tick t on machine m returns in this step, and neither the
\* poll nor a git command nor a spawn fails in it.
PollAnswered(m, t) ==
    /\ t \in daemon[m].ticks
    /\ t.pc = "pollWait"
    /\ t \notin daemon'[m].ticks
    /\ budget'.faults = budget.faults

\* C11 (cap boundary): a tick that began with r tasks running and whose
\* poll returns q queued tasks, none of them running, starts exactly
\* min(MAX_CONCURRENT_TASKS - r, q) tasks.
C11_CapBoundary ==
    [][\A m \in Machines : \A t \in daemon[m].ticks :
          LET queued == QueuedFrom(1)
              started == Len(daemon'[m].runningTasks) - Len(daemon[m].runningTasks)
          IN  (PollAnswered(m, t)
                  /\ \A i \in 1..Len(queued) : ~Has(daemon[m].runningTasks, queued[i]))
              => started = Min(t.slots, Len(queued))]_vars

\* C12 (registry miss): for a queued task whose repository has no
\* registered path the daemon issues no claim and no status write, creates
\* no worktree, spawns no child and adds no running-task record; the task
\* stays queued at the backend.
C12_RegistryMiss ==
    \A m \in Machines, dn \in Tasks :
        disk[m].registry[dn] = "unregistered" =>
            /\ \A r \in Issued : ~(r.from = m /\ r.dn = dn)
            /\ ~WorktreeExists(m, dn)
            /\ \A b \in disk[m].branches : b[1] # dn
            /\ \A c \in children[m] : c.dn # dn
            /\ ~Has(daemon[m].runningTasks, dn)
            /\ daemon[m].taskDetails[dn] = "absent"
            /\ bstatus[dn] = "queued"

\* A poll has returned an unregistered task ahead of a registered one, and
\* the tick has dispatched the registered one.
C12_Witness ==
    \E m \in Machines :
        /\ disk[m].registry[1] = "unregistered"
        /\ bstatus[1] = "queued"
        /\ Has(daemon[m].runningTasks, 2)

\* A failure of the set the backend requests are retried for: an error
\* whose text holds one of the patterns, or a response with HTTP status
\* 429, 502, 503 or 504.
RetryableFailure(o) ==
    \/ o.kind = "error" /\ isRetryableError(o)
    \/ o.kind = "response" /\ o.status \in {429, 502, 503, 504}

\* C13 (transient-failure retry): a backend request never makes more than
\* RETRY_MAX_ATTEMPTS attempts, and when it ends with a failure of the
\* retryable set it has made them all.
C13_RetryableRetried ==
    /\ api.attempt <= RETRY_MAX_ATTEMPTS
    /\ (api.pc \in {"returned", "thrown"} /\ api.retry
            /\ RetryableFailure(api.result))
        => api.attempt = RETRY_MAX_ATTEMPTS

\* The call has ended and every attempt it made failed with a retryable
\* error.
KeptFailing ==
    /\ api.pc = "thrown" /\ api.retry
    /\ isRetryableError(api.result)
    /\ Len(api.waits) = api.attempt - 1

\* C14 as stated (backoff schedule): a request that keeps failing with a
\* retryable error waits 2 s, then 4 s, then 8 s before its retries.
C14_WaitsTwoFourEight ==
    KeptFailing =>
        /\ Len(api.waits) >= 3
        /\ SubSeq(api.waits, 1, 3) = <<2000, 4000, 8000>>

\* C14 (backoff schedule), amended: the wait before the k-th retry is
\* 2 s doubled k - 1 times, never more than 30 s; a request makes at most
\* RETRY_MAX_ATTEMPTS - 1 retries, so one that keeps failing with a
\* retryable error waits 2 s, then 4 s, and is given up.
C14_BackoffSchedule ==
    /\ \A k \in 1..Len(api.waits) :
          api.waits[k] = Min(RETRY_INITIAL_DELAY * 2^(k - 1), RETRY_MAX_DELAY)
    /\ api.delay <= RETRY_MAX_DELAY
    /\ Len(api.waits) <= RETRY_MAX_ATTEMPTS - 1
    /\ KeptFailing => api.waits = <<RETRY_INITIAL_DELAY, 2 * RETRY_INITIAL_DELAY>>

\* A request has failed three times with retryable errors and is given up.
C14_Witness == KeptFailing /\ Len(api.waits) = 2

\* The command of CLI process c was ensureDaemonRunning(), has ended, and
\* found a daemon running with a version recorded in daemon.version.
EnsuredRunning(c) ==
    LET k == host.cli[c]
    IN  /\ k.op = "ensure" /\ k.pc = "done"
        /\ k.first.running /\ k.first.version # "none"

C16_SingleDaemon ==
    Cardinality({p \in Pids : isProcessRunning(host, p)}) <= 1

\* createWorktree() has just run for task dn.
CreatedNow(dn) ==
    /\ repo'.left = repo.left - 1
    /\ repo'.last.op = "create" /\ repo'.last.dn = dn

\* C17 (idempotent worktree create): createWorktree for a task whose branch
\* exists and whose worktree was removed attaches a worktree to that branch
\* at the task's path and leaves the branch's commits as they were; every
\* successful create of a task yields the same path on the same branch.
C17_IdempotentWorktreeCreate ==
    [][\A dn \in 1..WorktreeTasks :
        LET path == getWorktreePath(RepoDisk, dn, "project")
            branch == WorktreeBranch(RepoDisk, dn)
        IN  CreatedNow(dn) =>
              /\ (repo.tip[branch] # 0 /\ ~WorktreeDirExists(repo, path))
                    => /\ repo'.last.how = "existing"
                       /\ repo'.tip[branch] = repo.tip[branch]
              /\ repo'.last.how # "failed"
              /\ <<path, branch>> \in repo'.worktrees
              /\ \A b \in DOMAIN repo.tip :
                    b # branch => repo'.tip[b] = repo.tip[b]
              /\ repo'.worktrees \ {<<path, branch>>} =
                    repo.worktrees \ {<<path, branch>>}]_vars

\* A worktree was attached to an existing branch that holds a commit of
\* the agent which the project's checked-out branch does not have.
C17_Witness ==
    /\ repo.last.op = "create" /\ repo.last.how = "existing"
    /\ repo.tip[WorktreeBranch(RepoDisk, repo.last.dn)] # repo.head
    /\ repo.tip[WorktreeBranch(RepoDisk, repo.last.dn)] > 1

\* Task dn is in machine m's running set.
IsRunning(m, dn) == Has(daemon[m].runningTasks, dn)

\* A child of task dn on machine m has a non-empty line read by this step.
LineRead(m, dn) ==
    \E c \in children[m] :
        /\ c.dn = dn /\ c.todo # <<>> /\ Head(c.todo) # "blank"
        /\ ([c EXCEPT !.todo = Tail(@)]) \in children'[m]
        /\ c \notin children'[m]

\* C19 (idle reference point): the last-output time of a task is the time
\* of its spawn, advanced by every non-empty stdout line and by nothing
\* else while the task runs; at a tick a running task is declared idle if
\* and only if more than 10 min have passed since that time.
C19_IdleReferencePoint ==
    [][\A m \in Machines : \A dn \in Tasks :
        /\ (~IsRunning(m, dn) /\ IsRunning(m, dn)')
              => daemon'[m].taskLastOutput[dn] = now
        /\ (IsRunning(m, dn) /\ LineRead(m, dn))
              => daemon'[m].taskLastOutput[dn] = now
        /\ (IsRunning(m, dn) /\ IsRunning(m, dn)' /\ ~LineRead(m, dn))
              => daemon'[m].taskLastOutput[dn] = daemon[m].taskLastOutput[dn]
        /\ (IsRunning(m, dn) /\ daemon'[m].tickSeq # daemon[m].tickSeq)
              => (dn \in daemon'[m].idle
                    <=> now - daemon[m].taskLastOutput[dn]
                            > STUCK_IDLE_THRESHOLD)]_vars

\* A tick under way has found a task not idle that started more than
\* 10 min before it and wrote a line since.
C19_Witness ==
    \E m \in Machines : \E dn \in Tasks : \E t \in daemon[m].ticks :
        /\ IsRunning(m, dn)
        /\ t.id = daemon[m].tickSeq /\ t.now = now
        /\ dn \notin daemon[m].idle
        /\ t.now - Get(daemon[m].runningTasks, dn).startTime
              > STUCK_IDLE_THRESHOLD
        /\ daemon[m].taskLastOutput[dn]
              > Get(daemon[m].runningTasks, dn).startTime

\* The daemon of machine m has gone through cleanup() to its end, which
\* is process.exit(0), the only exit of the daemon.
ExitedWithCode0(m) == daemon[m].up = "exited"

C20_BatchSizeRange ==
    [][config'.left = config.left - 1 =>
        /\ config'.last.op = "get" =>
              /\ config'.last.got \in 1..20
              /\ config.file.kind = "absent" => config'.last.got = 5
        /\ (config'.last.op = "set" /\ config'.last.size \notin 1..20) =>
              /\ config'.last.ret = FALSE
              /\ config'.file = config.file]_vars

\* The terminal status writes (session_finished or failed) of one run that
\* daemon m has put on the wire.
TerminalReports(m, run) ==
    {r \in Issued : /\ r.from = m /\ r.run = run
                    /\ r.kind \in {"session_finished", "failed"}}

\* The runs of task dn whose child daemon m went on to spawn: the runs it
\* reported as running.
RunsOf(m, dn) ==
    {r.run : r \in {q \in Issued : q.from = m /\ q.dn = dn /\ q.kind = "running"}}

\* C21 (one terminal report per run): for each run the daemon sends at most
\* one terminal status write and appends at most one completed-today
\* record, whichever of child close, child error and timeout sweep occur,
\* also when the child closes during the sweep's 5 s wait.
C21_OneTerminalReportPerRun ==
    \A m \in Machines :
        /\ \A run \in 1..daemon[m].runSeq :
              Cardinality(TerminalReports(m, run)) <= 1
        /\ \A dn \in Tasks :
              Len(SelectSeq(daemon[m].completedToday, LAMBDA c : c.dn = dn))
                  <= Cardinality(RunsOf(m, dn))

\* The step of daemon m is the child-close handler acting on task dn.
IsCloseHandlerStep(m, dn) ==
    \E c \in children[m], code \in {"0", "1", "signal"} :
        /\ c.dn = dn
        /\ daemon'[m] =
              handleTaskCompletion([World(m) EXCEPT !.kids = @ \ {c},
                                                    !.pr = NextPr(code)],
                                   dn, code).d

\* The step of daemon m is a scheduler tick dispatching its poll result.
IsDispatchStep(m) ==
    \E t \in daemon[m].ticks : t.pc = "pollWait" /\ t \notin daemon'[m].ticks

\* C22 (single-owner running set): a record enters the running set only in
\* a scheduler tick's dispatch (pollAndExecute -> executeTask) and leaves it
\* only in the child-close handler (handleTaskCompletion); the timeout
\* sweep, the child 'error' handler and shutdown add and remove nothing.
C22_SingleOwnerRunningSet ==
    [][\A m \in Machines, dn \in Tasks :
          /\ (~Has(daemon[m].runningTasks, dn) /\ Has(daemon'[m].runningTasks, dn))
                => IsDispatchStep(m)
          /\ (Has(daemon[m].runningTasks, dn) /\ ~Has(daemon'[m].runningTasks, dn))
                => IsCloseHandlerStep(m, dn)]_vars

\* C23 (ticks are serialized): a new tick never begins while a previous
\* tick is still in progress, awaiting its poll or the 5 s wait of its
\* sweep: at most one tick of a daemon is under way at any time.
C23_TicksSerialized ==
    \A m \in Machines : Cardinality(daemon[m].ticks) <= 1

\* ------------------------------------------------- ticks that keep occurring

\* At most this many ticks of a daemon are under way at once.
MaxOverlap == 2
\* The requests the backend handles in a behaviour with unending ticks.
QueueDeliveries == 2

\* The interval timer may fire: the daemon is up, the initial poll is not
\* under way and fewer than MaxOverlap ticks are.
IntervalDue(m) ==
    /\ Ready(m)
    /\ daemon[m].boot \in {"start", "interval"}
    /\ Cardinality(daemon[m].ticks) < MaxOverlap

\* What that tick does up to its first await.
IntervalTick(m) ==
    LET w == World(m)
        id == CHOOSE i \in 1..MaxOverlap : \A u \in w.d.ticks : u.id # i
        t == [id |-> id, pc |-> "start", now |-> now,
              timedOut |-> timedOutOf(w.d.runningTasks, now),
              idx |-> 0, victim |-> NoVictim, since |-> 0, slots |-> 0]
        w1 == [w EXCEPT !.d.idle = idleOf(w.d, now),
                        !.d.boot = IF @ = "start" THEN "initial" ELSE @]
    IN  checkTimeouts(w1, t)

\* poll() fired by the interval without end: as TickStart, but the tick
\* takes a number no tick under way holds, so that ticks can go on forever
\* in a finite state space.
IntervalFires(m) ==
    /\ IntervalDue(m)
    /\ Put(IntervalTick(m), budget)
    /\ UNCHANGED <<side, unsent, received, bstatus, bowner, now, readerSaw>>

\* IntervalFires(m) can be taken and changes the state.
IntervalPending(m) ==
    /\ IntervalDue(m)
    /\ LET w == IntervalTick(m)
       IN  \/ w.d # daemon[m] \/ w.disk # disk[m] \/ w.kids # children[m]
           \/ ~(w.out \subseteq net)

\* Weak fairness of IntervalFires(m), with its enabling condition written
\* out.
IntervalKeepsFiring(m) ==
    []<>(~IntervalPending(m)) \/ []<><<IntervalFires(m)>>_vars

\* The queue as the polls of one daemon see it: every task is queued, the
\* first k of them for repositories this machine has not registered.
InitQueue ==
    \E k \in 0..MAX_CONCURRENT_TASKS :
        /\ daemon = [m \in Machines |-> Daemon0(m = "A")]
        /\ disk = [m \in Machines |->
                      [Disk0(m, m = "A") EXCEPT !.registry =
                          [dn \in Tasks |-> IF dn <= k THEN "unregistered" ELSE "ok"]]]
        /\ children = [m \in Machines |-> {}]
        /\ net = {}
        /\ unsent = {}
        /\ received = <<>>
        /\ bstatus = [dn \in Tasks |-> "queued"]
        /\ bowner = [dn \in Tasks |-> "none"]
        /\ now = 0
        /\ readerSaw = [m \in Machines |-> "nothing"]
        /\ budget = Budget(0, 0, 0, QueueDeliveries, 0, <<>>)
        /\ api = ApiIdle /\ host = HostIdle /\ repo = RepoIdle /\ config = ConfigIdle
    /\ projects = ProjectsIdle

NextQueue ==
    \/ \E m \in Machines : IntervalFires(m)
    \/ \E m \in Machines : PollReturn(m)
    \/ BackendReceive

\* PollReturn(m) can be taken: a poll of daemon m is outstanding.
PollPending(m) ==
    Ready(m) /\ \E t \in daemon[m].ticks : t.pc = "pollWait"

\* Weak fairness of PollReturn(m), with its enabling condition written out.
PollReturns(m) ==
    []<>(~PollPending(m)) \/ []<><<PollReturn(m)>>_vars

\* The interval timer keeps firing and every poll comes back: a fetch is
\* aborted after 30 s at the latest.
FairQueue ==
    /\ \A m \in Machines : WF_vars(IntervalFires(m))
    /\ \A m \in Machines : PollReturns(m)

SpecQueue == InitQueue /\ [][NextQueue]_vars /\ FairQueue

\* Task dn is queued for a repository daemon m has registered at a path
\* that exists, is not running, and daemon m has a slot free.
Dispatchable(m, dn) ==
    /\ bstatus[dn] = "queued"
    /\ getProjectPath(disk[m], dn) = "ok"
    /\ ~Has(daemon[m].runningTasks, dn)
    /\ Len(daemon[m].runningTasks) < MAX_CONCURRENT_TASKS

\* C24 (no starvation behind undispatchable tasks): while ticks keep
\* occurring and fewer than 5 tasks are running, a queued task whose
\* repository is registered at an existing path is eventually dispatched,
\* also when every poll returns ahead of it queued tasks the machine skips.
C24_NoStarvation ==
    \A dn \in Tasks :
        Dispatchable("A", dn)
            ~> (\/ Has(daemon["A"].runningTasks, dn)
                \/ Len(daemon["A"].runningTasks) >= MAX_CONCURRENT_TASKS
                \/ bstatus[dn] # "queued")

\* The step ends a tick of daemon m: poll() returns, either a tick that was
\* under way or one that starts and runs to its end without awaiting.
TickEnds(m) ==
    \/ \E t \in daemon[m].ticks : \A u \in daemon'[m].ticks : u.id # t.id
    \/ /\ daemon'[m].tickSeq # daemon[m].tickSeq
       /\ \A u \in daemon'[m].ticks : u.id # daemon'[m].tickSeq

\* C25 (status refresh every tick): at the end of every tick the daemon
\* has rewritten daemon_status.json, so that its updatedAt is the time of
\* the tick's end, whatever the tick did: poll skipped at the cap, poll
\* empty, poll failed, or tasks dispatched.
C25_StatusRefreshEveryTick ==
    [][\A m \in Machines :
          TickEnds(m) => /\ disk'[m].statusFile = "snapshot"
                         /\ disk'[m].updatedAt = now']_vars

\* The attempt failed with a failure outside the retryable set: an error
\* whose text holds none of the patterns, or a response whose status is
\* an error status other than 429, 502, 503 and 504.
OutsideRetryableSet(o) ==
    \/ o.kind = "error" /\ o.text \notin RETRYABLE_ERRORS
    \/ o.kind = "response" /\ o.status \notin {200, 429, 502, 503, 504}

\* C26 as stated (no retry on non-retryable failure): a request one of
\* whose attempts fails with a failure outside the retryable set is
\* attempted exactly once, and no request is attempted more than 3 times.
C26_AttemptedExactlyOnce ==
    /\ api.attempt <= RETRY_MAX_ATTEMPTS
    /\ OutsideRetryableSet(api.result) => api.attempt = 1

\* C26 (no retry on non-retryable failure), amended: an attempt that fails
\* with a failure outside the retryable set is the request's last: the
\* failure is surfaced to the caller without a further attempt, every
\* earlier attempt having been a retryable error followed by its wait; no
\* request is attempted more than RETRY_MAX_ATTEMPTS times.
C26_NoRetryAfterNonRetryable ==
    /\ api.attempt <= RETRY_MAX_ATTEMPTS
    /\ OutsideRetryableSet(api.result) =>
          /\ api.pc = IF api.result.kind = "error" THEN "thrown" ELSE "returned"
          /\ api.attempt = Len(api.waits) + 1

\* A request with retries allowed has ended on an error outside the
\* retryable set although further fetches could have been made.
C26_Witness ==
    /\ api.retry /\ api.pc = "thrown"
    /\ OutsideRetryableSet(api.result)
    /\ api.attempt < RETRY_MAX_ATTEMPTS
    /\ api.script # <<>>

\* ------------------------------------------------------------ stuck phrases

\* Lines an agent writes in the specification of stuck detection.
StuckLines == 3

\* What an agent may write: lines holding a stuck phrase, in either case,
\* and lines holding none.
StuckScripts ==
    UNION {[1..n -> {"text", "stuck", "Proceed? [Y/n]", "Press ENTER to continue"}]
              : n \in 1..StuckLines}

\* One task whose agent writes such a script.
InitStuck ==
    \E s \in StuckScripts : InitWith({"A"}, 1, Budget(1, 0, 0, 1, 0, s))

SpecStuck == InitStuck /\ [][NextStdout]_vars

\* C27 (stuck detection): the first stdout line of a running task that
\* holds a stuck phrase, in whatever case, changes the task's phase to
\* stuck with a reason naming that phrase; a later line that holds a stuck
\* phrase changes neither the phase nor the recorded reason; the phase
\* never leaves stuck while the task runs.
C27_StuckDetection ==
    [][\A m \in Machines, dn \in Tasks :
          (IsRunning(m, dn) /\ IsRunning(m, dn)') =>
              /\ (daemon[m].taskDetails[dn] # "stuck" /\ LineRead(m, dn)
                    /\ \E c \in children[m] :
                          c.dn = dn /\ checkStuckPatterns(Head(c.todo)) # "")
                    => /\ daemon'[m].taskDetails[dn] = "stuck"
                       /\ \E c \in children[m] :
                            /\ c.dn = dn
                            /\ daemon'[m].taskReason[dn] =
                                   checkStuckPatterns(Head(c.todo))
              /\ daemon[m].taskDetails[dn] = "stuck"
                    => /\ daemon'[m].taskDetails[dn] = "stuck"
                       /\ daemon'[m].taskReason[dn] = daemon[m].taskReason[dn]]_vars

\* The failed report that names the missing path of task dn.
IsPathReport(r, m, dn) ==
    /\ r.from = m /\ r.dn = dn
    /\ r.kind = "failed" /\ r.detail = "path"

\* C28 (registered path missing): for a task whose repository is registered
\* at a path that does not exist, the daemon sends a failed report naming
\* the path and does nothing else: no claim, no worktree, no branch, no
\* child, no running-task record, no task detail.
C28_RegisteredPathMissing ==
    \A m \in Machines, dn \in Tasks :
        disk[m].registry[dn] = "missing" =>
            /\ \A r \in Issued : (r.from = m /\ r.dn = dn) => IsPathReport(r, m, dn)
            /\ (daemon[m].boot = "interval" /\ dn <= RegistryTasks)
                  => \E r \in Issued : IsPathReport(r, m, dn)
            /\ ~WorktreeExists(m, dn)
            /\ \A b \in disk[m].branches : b[1] # dn
            /\ \A c \in children[m] : c.dn # dn
            /\ ~Has(daemon[m].runningTasks, dn)
            /\ daemon[m].taskDetails[dn] = "absent"

\* The backend has handled the failed report of a task whose registered
\* path is missing, while the tick dispatched another task of the poll.
C28_Witness ==
    \E m \in Machines :
        /\ disk[m].registry[1] = "missing"
        /\ \E i \in 1..Len(received) : IsPathReport(received[i].req, m, 1)
        /\ bstatus[1] = "failed"
        /\ Has(daemon[m].runningTasks, 2)

\* The failed report of a run of task dn whose worktree could not be
\* created.
IsWorktreeReport(r, m, dn) ==
    /\ r.from = m /\ r.dn = dn
    /\ r.kind = "failed" /\ r.detail = "worktree"

\* C29 (worktree create failure): when createWorktree() fails for a task,
\* the daemon puts a failed report on the wire, spawns no child for the
\* run, reports no start of it, and leaves no running-task record, no
\* task detail, no project path and no worktree for the task, so that the
\* task takes no slot.
C29_WorktreeCreateFailure ==
    [][\A m \in Machines, dn \in Tasks :
          (\E r \in net' \ net : IsWorktreeReport(r, m, dn)) =>
              /\ ~Has(daemon'[m].runningTasks, dn)
              /\ daemon'[m].taskDetails[dn] = "absent"
              /\ daemon'[m].taskReason[dn] = ""
              /\ daemon'[m].taskProjectPaths[dn] = "absent"
              /\ ~WorktreeExists(m, dn)'
              /\ \A c \in children'[m] : c.dn = dn => c \in children[m]
              /\ \A r \in net' \ net :
                    (r.from = m /\ r.dn = dn) => r.kind \in {"claim", "failed"}
              /\ Len(daemon'[m].runningTasks) - Len(daemon[m].runningTasks)
                    = Cardinality({c \in children'[m] : c \notin children[m]})]_vars

\* The backend has handled the failed report of the first queued task,
\* whose worktree could not be created, and the next queued task runs.
C29_Witness ==
    \E m \in Machines :
        /\ \E i \in 1..Len(received) :
              IsWorktreeReport(received[i].req, m, DispatchRunning + 1)
        /\ bstatus[DispatchRunning + 1] = "failed"
        /\ ~Has(daemon[m].runningTasks, DispatchRunning + 1)
        /\ Has(daemon[m].runningTasks, DispatchRunning + 2)

\* ------------------------------------------------------- runs that must end

\* Tasks running when the specification of run endings begins.
EndsRunning == 2
\* Children that close on their own, and requests the backend handles.
EndsCloses == 1
EndsDeliveries == 1

\* The initial poll has dispatched EndsRunning tasks at time 0.
Started ==
    LET w0 == [m |-> "A", d |-> [Daemon0(TRUE) EXCEPT !.boot = "interval"],
               disk |-> Disk0("A", TRUE), kids |-> {}, out |-> {}, now |-> 0,
               faults |-> 0, script |-> <<>>, ok |-> TRUE,
               pr |-> "noCommits"]
    IN  CHOOSE w \in DispatchAll(w0, [i \in 1..EndsRunning |-> i]) : TRUE

\* The tasks of the initial poll are running, the backend has granted
\* their claims, and no other task is queued.
InitEnds ==
    LET w == updateStatusFile(Started) IN
    /\ daemon = [m \in Machines |-> IF m = "A" THEN w.d ELSE Daemon0(FALSE)]
    /\ disk = [m \in Machines |-> IF m = "A" THEN w.disk ELSE Disk0(m, FALSE)]
    /\ children = [m \in Machines |-> IF m = "A" THEN w.kids ELSE {}]
    /\ net = {r \in w.out : r.kind # "claim"}
    /\ unsent = {}
    /\ received = [i \in 1..EndsRunning |->
                      LET r == CHOOSE x \in w.out : x.kind = "claim" /\ x.dn = i
                      IN  [req |-> r, claimed |-> TRUE]]
    /\ bstatus = [dn \in Tasks |-> IF dn <= EndsRunning THEN "running" ELSE "absent"]
    /\ bowner = [dn \in Tasks |-> IF dn <= EndsRunning THEN "A" ELSE "none"]
    /\ now = 0
    /\ readerSaw = [m \in Machines |-> "nothing"]
    /\ budget = [Budget(0, 0, 0, EndsDeliveries, 0, <<>>) EXCEPT !.closes = EndsCloses]
    /\ api = ApiIdle /\ host = HostIdle /\ repo = RepoIdle /\ config = ConfigIdle
    /\ projects = ProjectsIdle

\* The timers of daemon m that have yet to run out, by their length: the
\* limit of a running task that is not past it, the 5 s wait of a sweep.
TimersPending(m) ==
    {TASK_TIMEOUT_MS : i \in {k \in 1..Len(daemon[m].runningTasks) :
          now - daemon[m].runningTasks[k].startTime <= TASK_TIMEOUT_MS}}
    \cup {KILL_WAIT_MS : t \in {u \in daemon[m].ticks :
          u.pc = "killWait" /\ now < u.since + KILL_WAIT_MS}}

\* Time passes, by the length of a timer that has yet to run out.
TimePasses ==
    /\ \E m \in Machines : \E dt \in TimersPending(m) : now' = now + dt
    /\ UNCHANGED <<side, daemon, disk, children, net, unsent, received, bstatus,
                   bowner, readerSaw, budget>>

\* SweepResume(m) can be taken: the 5 s wait of a sweep is over.
SweepPending(m) ==
    Ready(m) /\ \E t \in daemon[m].ticks :
                    t.pc = "killWait" /\ now >= t.since + KILL_WAIT_MS

\* Weak fairness of SweepResume(m), with its enabling condition written out.
SweepResumes(m) ==
    []<>(~SweepPending(m)) \/ []<><<SweepResume(m)>>_vars

NextEnds ==
    \/ \E m \in Machines : IntervalFires(m)
    \/ \E m \in Machines : SweepResume(m)
    \/ \E m \in Machines : PollReturn(m)
    \/ \E m \in Machines : ChildClose(m)
    \/ BackendReceive
    \/ TimePasses

\* The interval timer keeps firing, every poll comes back, the 5 s timer
\* of a sweep fires, and time passes; no child has to exit.
FairEnds ==
    /\ \A m \in Machines : IntervalKeepsFiring(m)
    /\ \A m \in Machines : PollReturns(m)
    /\ \A m \in Machines : SweepResumes(m)
    /\ WF_vars(TimePasses)

SpecEnds == InitEnds /\ [][NextEnds]_vars /\ FairEnds

\* C30 (every run ends): while ticks keep occurring, every task in the
\* running set eventually leaves it, by its child's exit or by the timeout
\* sweep once it has run for more than TASK_TIMEOUT_MS; no task stays in
\* the set forever.
C30_EveryRunEnds ==
    \A dn \in Tasks : IsRunning("A", dn) ~> ~IsRunning("A", dn)

\* A task whose child never exited has been taken out of the running set
\* by the timeout sweep.
C30_Witness ==
    /\ daemon["A"].runningTasks = <<>>
    /\ \E i \in 1..Len(daemon["A"].completedToday) :
          /\ daemon["A"].completedToday[i].status = "timeout"
          /\ \E c \in children["A"] :
                c.dn = daemon["A"].completedToday[i].dn /\ c.st = "running"

\* At the tick that starts now, task dn of daemon m is running within the
\* time limit and its last output is more than 5 min old.
IdleAtTick(m, dn) ==
    /\ IsRunning(m, dn)
    /\ daemon'[m].tickSeq # daemon[m].tickSeq
    /\ now - Get(daemon[m].runningTasks, dn).startTime <= TASK_TIMEOUT_MS
    /\ daemon[m].taskLastOutput[dn] > 0
    /\ now - daemon[m].taskLastOutput[dn] > STUCK_WARNING_THRESHOLD

\* C31 (idle never kills): a tick that finds a running task's last output
\* more than 5 min or more than 10 min old, the task being within the
\* time limit, sends the child no signal, leaves the task's record, detail
\* and worktree as they are, and puts no status write of the task on the
\* wire.
C31_IdleNeverKills ==
    [][\A m \in Machines, dn \in Tasks :
          IdleAtTick(m, dn) =>
              /\ Get(daemon'[m].runningTasks, dn) = Get(daemon[m].runningTasks, dn)
              /\ IsRunning(m, dn)'
              /\ \A c \in children[m] : c.dn = dn => c \in children'[m]
              /\ daemon'[m].taskDetails[dn] = daemon[m].taskDetails[dn]
              /\ daemon'[m].completedToday = daemon[m].completedToday
              /\ disk'[m].worktrees = disk[m].worktrees
              /\ \A r \in net' \ net : ~(r.from = m /\ r.dn = dn)]_vars

\* A tick under way has found a task idle for more than 10 min; the task
\* is still running and its child has been sent no signal.
C31_Witness ==
    \E m \in Machines, dn \in Tasks : \E t \in daemon[m].ticks :
        /\ t.id = daemon[m].tickSeq /\ t.now = now
        /\ dn \in daemon[m].idle
        /\ IsRunning(m, dn)
        /\ \E c \in children[m] : c.dn = dn /\ c.st = "running" /\ c.sig = "none"

\* ------------------------------------------------------- heartbeat headers

\* The keys of getListedProjects()'s result in the order of the file: the
\* remotes that have an entry in projects.json, whether or not the
\* directory of the entry exists.
RECURSIVE RemotesFrom(_, _)
RemotesFrom(dk, dn) ==
    IF dn > MaxTasks THEN <<>>
    ELSE IF dk.registry[dn] \in {"ok", "missing"}
         THEN <<dn>> \o RemotesFrom(dk, dn + 1)
         ELSE RemotesFrom(dk, dn + 1)

getListedProjects(dk) == RemotesFrom(dk, 1)

\* getMachineName(): the hostname of the machine.
getMachineName(m) == <<"hostname", m>>

\* fetchQueuedTasks()'s heartbeat headers: set only when the machine has
\* an id and at least one project is registered.
heartbeatHeaders(dk, m) ==
    LET machineId == getMachineId(dk)
        gitRemotes == getListedProjects(dk)
    IN  IF machineId # "none" /\ Len(gitRemotes) > 0
        THEN [names |-> {"X-Machine-Id", "X-Machine-Name", "X-Git-Remotes"},
              id |-> machineId, name |-> getMachineName(m),
              remotes |-> gitRemotes]
        ELSE NoHeaders

\* What the fetches of a poll may do.
PollOutcomes ==
    {o \in FetchOutcomes :
        \/ o.kind = "response" /\ o.status \in {200, 404}
        \/ o.kind = "error" /\ o.text \in {"timeout", "fetch failed"}}

\* The daemon of machine "A" before a poll: the machine_id file is there
\* or not, and each of the first PollRemotes remotes is registered with a
\* directory, registered without one, or not registered.
InitPoll ==
    /\ daemon = [m \in Machines |-> Daemon0(m = "A")]
    /\ \E id \in {"A", "none"},
          reg \in [1..PollRemotes -> {"ok", "missing", "unregistered"}] :
          disk = [m \in Machines |->
                    [Disk0(m, m = "A") EXCEPT
                        !.machineId = IF m = "A" THEN id ELSE @,
                        !.registry = [dn \in Tasks |->
                            IF m = "A" /\ dn <= PollRemotes THEN reg[dn]
                            ELSE "unregistered"]]]
    /\ children = [m \in Machines |-> {}]
    /\ net = {}
    /\ unsent = {}
    /\ received = <<>>
    /\ bstatus = [dn \in Tasks |-> "absent"]
    /\ bowner = [dn \in Tasks |-> "none"]
    /\ now = 0
    /\ readerSaw = [m \in Machines |-> "nothing"]
    /\ budget = Budget(0, 0, 0, 0, 0, <<>>)
    /\ api = ApiIdle /\ host = HostIdle /\ repo = RepoIdle /\ config = ConfigIdle
    /\ projects = ProjectsIdle

\* fetchQueuedTasks() up to its call of apiRequest(): the request of the
\* poll is built from the machine_id file and the registry and sent.
FetchQueuedTasks ==
    /\ api.pc = "idle"
    /\ \E script \in [1..ApiOutcomes -> PollOutcomes] :
          api' = [ApiCall(TRUE, script) EXCEPT
                     !.headers = heartbeatHeaders(disk["A"], "A")]
    /\ UNCHANGED <<main, host, repo, config, projects>>

NextPoll == FetchQueuedTasks \/ ApiSettle \/ ApiRetry

SpecPoll == InitPoll /\ [][NextPoll]_vars

\* C32: every poll request carries the three heartbeat headers, the id of
\* the machine, its name and the registered repo_urls, whatever the state
\* of the machine_id file and of the registry, an empty registry included.
C32_HeartbeatOnEveryPoll ==
    api.pc # "idle" =>
        /\ api.headers.names = {"X-Machine-Id", "X-Machine-Name", "X-Git-Remotes"}
        /\ api.headers.name = getMachineName("A")
        /\ api.headers.remotes = getListedProjects(disk["A"])

\* --------------------------------------------------- writes of projects.json

\* register(): a new entry at the end, or a new localPath in the entry
\* there is; the first project becomes the default.
register(doc, gitRemote, localPath) ==
    LET isNew == ~InProjects(doc, gitRemote)
        entries ==
            IF isNew
            THEN Append(doc.projects,
                        [remote |-> gitRemote, localPath |-> localPath])
            ELSE [i \in 1..Len(doc.projects) |->
                    IF doc.projects[i].remote = gitRemote
                    THEN [doc.projects[i] EXCEPT !.localPath = localPath]
                    ELSE doc.projects[i]]
    IN  [projects |-> entries,
         defaultProject |-> IF doc.defaultProject = "null" THEN gitRemote
                            ELSE doc.defaultProject]

\* The entries left when a remote's entry is deleted.
Remaining(doc, gitRemote) ==
    SelectSeq(doc.projects, LAMBDA e : e.remote # gitRemote)

\* A variant that leaves the default alone.
unregister_KeepDefault(doc, gitRemote) ==
    [doc EXCEPT !.projects = Remaining(doc, gitRemote)]

\* unregister(): the entry is deleted; when it was the default, the first
\* of the remaining keys becomes the default, null when none remains.
unregister(doc, gitRemote) ==
    IF InProjects(doc, gitRemote)
    THEN LET remaining == Remaining(doc, gitRemote)
         IN  [projects |-> remaining,
              defaultProject |->
                 IF doc.defaultProject = gitRemote
                 THEN IF Len(remaining) > 0 THEN remaining[1].remote
                      ELSE "null"
                 ELSE doc.defaultProject]
    ELSE doc

\* setDefaultProject(): only a registered remote becomes the default.
setDefaultProject(doc, gitRemote) ==
    IF InProjects(doc, gitRemote)
    THEN [doc EXCEPT !.defaultProject = gitRemote]
    ELSE doc

\* _save(), first half: writeFileSync() opens projects.json for writing,
\* which leaves the file there and empty.
SaveOpens(g) ==
    [g EXCEPT !.before = g.file, !.file.st = "truncated"]

\* _save(), second half: the document is written and the file closed.
SaveWrites(g) ==
    [g EXCEPT !.file = [st |-> "complete", doc |-> g.data]]

\* The daemon's getProjectPath() on the file as it is: null without a
\* file, null when JSON.parse() throws, else the entry's localPath or null.
getProjectPathFrom(file, gitRemote) ==
    IF file.st # "complete" THEN "null"
    ELSE LocalPathOf(file.doc, gitRemote)

\* A method of the registry is called when no other is under way.
MayCall == projects.file.st # "truncated" /\ projects.calls < ProjectsCalls

\* The rest of a method that changed the registry: the call is counted and
\* _save() begins.
Called(g, name, gitRemote) ==
    SaveOpens([g EXCEPT
        !.op = [name |-> name, remote |-> gitRemote,
                wasDefault |-> projects.data.defaultProject = gitRemote],
        !.calls = @ + 1])

Register(gitRemote, localPath) ==
    /\ MayCall
    /\ projects' = Called([projects EXCEPT
            !.data = register(@, gitRemote, localPath),
            !.latest[gitRemote] = localPath], "register", gitRemote)
    /\ UNCHANGED <<main, api, host, repo, config>>

\* unregister() saves only when it found the entry.
Unregister(gitRemote) ==
    /\ MayCall
    /\ projects' =
          IF InProjects(projects.data, gitRemote)
          THEN Called([projects EXCEPT
                  !.data = unregister(@, gitRemote),
                  !.latest[gitRemote] = "null"], "unregister", gitRemote)
          ELSE [projects EXCEPT !.calls = @ + 1]
    /\ UNCHANGED <<main, api, host, repo, config>>

\* setDefaultProject() saves only when it found the entry.
SetDefaultProject(gitRemote) ==
    /\ MayCall
    /\ projects' =
          IF InProjects(projects.data, gitRemote)
          THEN Called([projects EXCEPT
                  !.data = setDefaultProject(@, gitRemote)],
                  "setDefaultProject", gitRemote)
          ELSE [projects EXCEPT !.calls = @ + 1]
    /\ UNCHANGED <<main, api, host, repo, config>>

\* getPath() sets the entry's lastUsed and saves when it found the entry;
\* the timestamps of the document are not part of the model.
GetPath(gitRemote) ==
    /\ MayCall
    /\ projects' =
          IF InProjects(projects.data, gitRemote)
          THEN Called(projects, "getPath", gitRemote)
          ELSE [projects EXCEPT !.calls = @ + 1]
    /\ UNCHANGED <<main, api, host, repo, config>>

\* writeFileSync() writes the document into the file it opened.
SaveCompletes ==
    /\ projects.file.st = "truncated"
    /\ projects' = SaveWrites(projects)
    /\ UNCHANGED <<main, api, host, repo, config>>

\* The daemon looks a remote up in projects.json, at any moment.
DaemonReadsProjects(gitRemote) ==
    /\ projects.reads < ProjectsReads
    /\ projects' = [projects EXCEPT
          !.reads = @ + 1,
          !.read = [remote |-> gitRemote,
                    got |-> getProjectPathFrom(projects.file, gitRemote),
                    st |-> projects.file.st,
                    inOld |-> getProjectPathFrom(
                        IF projects.file.st = "truncated"
                        THEN projects.before ELSE projects.file, gitRemote),
                    inNew |-> LocalPathOf(projects.data, gitRemote)]]
    /\ UNCHANGED <<main, api, host, repo, config>>

InitProjects ==
    /\ MainAtRest
    /\ api = ApiIdle /\ host = HostIdle /\ repo = RepoIdle /\ config = ConfigIdle
    /\ projects = ProjectsIdle

NextProjects ==
    \/ \E r \in Remotes, p \in LocalPaths : Register(r, p)
    \/ \E r \in Remotes : Unregister(r)
    \/ \E r \in Remotes : SetDefaultProject(r)
    \/ \E r \in Remotes : GetPath(r)
    \/ SaveCompletes
    \/ \E r \in Remotes : DaemonReadsProjects(r)

SpecProjects == InitProjects /\ [][NextProjects]_vars

\* C33: every write of projects.json is atomic, so what the daemon reads
\* for a remote is what the complete old document or the complete new one
\* holds for it; in particular a remote registered in both is never found
\* unregistered.
C33_RegistryWriteAtomic ==
    projects.read.remote # "none" =>
        /\ projects.read.got \in {projects.read.inOld, projects.read.inNew}
        /\ projects.read.inOld # "null" /\ projects.read.inNew # "null"
               => projects.read.got # "null"

\* C39: after any sequence of register, unregister and setDefaultProject
\* calls on a registry that starts empty, defaultProject is null exactly
\* when no project is registered and is otherwise the remote of a
\* registered project; every remote has at most one entry, and the
\* entry's path is the one its latest register call gave.
C39_DefaultProjectInvariant ==
    LET doc == projects.data
    IN  /\ (doc.defaultProject = "null") <=> (doc.projects = <<>>)
        /\ doc.defaultProject # "null" => InProjects(doc, doc.defaultProject)
        /\ \A i, j \in 1..Len(doc.projects) :
               doc.projects[i].remote = doc.projects[j].remote => i = j
        /\ \A r \in Remotes : LocalPathOf(doc, r) = projects.latest[r]

\* The default project has been unregistered while another was registered,
\* and a project has been registered again with another path.
C39_Witness ==
    /\ projects.op.name = "unregister" /\ projects.op.wasDefault
    /\ projects.data.projects # <<>>
    /\ projects.file.st = "complete"
    /\ \E r \in Remotes : projects.latest[r] = "/q"

\* ------------------------------------------------------ the machine_id file

\* The ids a CLI's getMachineId() may generate on a machine: the hostname
\* and a random suffix.
FreshMachineIds(m) == IF m = "A" THEN {"A", "A2"} ELSE {"B", "B2"}

\* A CLI's getMachineId() on a machine without a machine_id file: an id is
\* generated and written to the file.  With a file the id is only read.
CliGetMachineId(m) ==
    /\ disk[m].pidFile
    /\ disk[m].machineId = "none"
    /\ \E id \in FreshMachineIds(m) :
          disk' = [disk EXCEPT ![m].machineId = id]
    /\ UNCHANGED <<side, daemon, children, net, unsent, received, bstatus,
                   bowner, now, readerSaw, budget>>

\* A CLI's resetMachineId(): the machine_id file is unlinked.
CliResetMachineId(m) ==
    /\ disk[m].pidFile
    /\ disk[m].machineId # "none"
    /\ disk' = [disk EXCEPT ![m].machineId = "none"]
    /\ UNCHANGED <<side, daemon, children, net, unsent, received, bstatus,
                   bowner, now, readerSaw, budget>>

\* A daemon with running tasks, and CLIs that reset and create the
\* machine_id file meanwhile.
NextSuffix ==
    \/ NextDispatch
    \/ \E m \in Machines : CliGetMachineId(m)
    \/ \E m \in Machines : CliResetMachineId(m)

SpecSuffix == InitDispatch /\ [][NextSuffix]_vars

\* C34: within one daemon process the worktree suffix is the same at every
\* use: when the close handler cleans up after a task, the suffix it
\* computes is the one the task's worktree was created with, whatever a
\* CLI did to the machine_id file meanwhile.
C34_StableWorktreeSuffix ==
    [][\A m \in Machines, dn \in Tasks :
          IsCloseHandlerStep(m, dn) =>
              \A path \in disk[m].worktrees :
                  path[1] = dn => path[2] = getWorktreeSuffix(disk[m])]_vars

\* C35: ensureDaemonRunning() never stops a daemon that was started from
\* the installed package version: no such daemon is sent a signal by
\* stopDaemon(), also not between a restart and the moment the new daemon
\* writes daemon.version.
C35_NoNeedlessRestart ==
    \A p \in Pids :
        host.proc[p].sigterm => host.proc[p].version # host.installed

\* -------------------------------------------------- environment and config

\* config.js getApiKey(): the environment's PUSH_API_KEY when it is set
\* and not empty, else the file's, else an Error is thrown.
getApiKeyOf(keyEnv, keyFile) ==
    IF keyEnv # "none" THEN keyEnv
    ELSE IF keyFile # "none" THEN keyFile
    ELSE "throws"

\* A caller asks for the API key.
GetApiKey ==
    /\ config.left > 0
    /\ config' = [config EXCEPT
                    !.left = @ - 1,
                    !.lastKey = getApiKeyOf(config.keyEnv, config.keyFile)]
    /\ UNCHANGED <<main, api, host, repo, projects>>

\* Any config file and any environment: PUSH_MAX_BATCH_SIZE and
\* PUSH_API_KEY are each set or not in the file and in the environment.
InitEnv ==
    /\ MainAtRest
    /\ api = ApiIdle /\ host = HostIdle /\ repo = RepoIdle
    /\ projects = ProjectsIdle
    /\ \E file \in ConfigValues, env \in ConfigValues,
          keyFile \in {"none", "key-of-file"},
          keyEnv \in {"none", "key-of-env"} :
          config = [ConfigIdle EXCEPT
                      !.file = file, !.env = env, !.keyFile = keyFile,
                      !.keyEnv = keyEnv, !.left = ConfigCalls]

NextEnv == GetMaxBatchSize \/ GetApiKey

SpecEnv == InitEnv /\ [][NextEnv]_vars

\* C36: when the environment variable PUSH_<KEY> is set, the value the
\* program uses for KEY is the environment's and not the file's: the batch
\* size read is the one of the environment, and so is the API key.
C36_EnvironmentOverride ==
    /\ config.last.op = "get" /\ config.env.kind # "absent"
          => config.last.got = getMaxBatchSize(config.env)
    /\ config.lastKey # "unread" /\ config.keyEnv # "none"
          => config.lastKey = config.keyEnv

\* ------------------------------------------------------------ PR creation

\* The daemon at the cap; for each of the next PrCloses closes with code 0
\* the environment has an outcome of the PR creation in store.
InitPr ==
    \E prs \in [1..PrCloses -> PrOutcomes] : InitDispatchWith(PrCloses, prs)

SpecPr == InitPr /\ [][NextDispatch]_vars

\* The step is the close handler of daemon m for the running task dn, whose
\* child exited with code 0 and whose PR creation met the given outcome.
ClosesWithPr(m, dn, outcome) ==
    /\ IsRunning(m, dn)
    /\ \E c \in children[m] : c.dn = dn /\ c \notin children'[m]
    /\ budget.prs # <<>> /\ budget'.prs = Tail(budget.prs)
    /\ Head(budget.prs) = outcome

InitFail ==
    \E polls \in [1..FailTicks -> PollResults] :
        InitWith({"A"}, FailTasks,
                 [Budget(FailTicks, 0, 0, FailDeliveries, 0, <<>>)
                     EXCEPT !.polls = polls])

SpecFail == InitFail /\ [][NextRace]_vars

\* The step is the return of a poll of daemon m that failed.
FailedPollReturn(m) ==
    /\ budget.polls # <<>> /\ Head(budget.polls) # "ok"
    /\ budget'.polls = Tail(budget.polls)
    /\ \E t \in daemon[m].ticks : t.pc = "pollWait" /\ t \notin daemon'[m].ticks

\* C38: when a poll fails (401, no API key, retries exhausted) the daemon
\* claims and starts no task in that tick and its running set is
\* unchanged; the tick loop goes on, and every later tick polls again.
C38_PollingSurvivesFailures ==
    [][\A m \in Machines :
          /\ FailedPollReturn(m) =>
                /\ daemon'[m].runningTasks = daemon[m].runningTasks
                /\ children'[m] = children[m]
                /\ net' = net
                /\ daemon'[m].up = "up"
                /\ daemon'[m].boot = "interval"
          /\ daemon'[m].tickSeq # daemon[m].tickSeq =>
                \E t \in daemon'[m].ticks :
                    t.id = daemon'[m].tickSeq /\ t.pc = "pollWait"]_vars

\* The first poll has returned and started nothing although tasks are
\* queued, so it failed; a later tick is polling.
C38_Witness ==
    /\ Len(budget.polls) = FailTicks - 1
    /\ QueuedFrom(1) # <<>>
    /\ net = {} /\ received = <<>> /\ daemon["A"].runningTasks = <<>>
    /\ \E t \in daemon["A"].ticks : t.id > 1 /\ t.pc = "pollWait"
====
